---- MODULE Spec2Model ----
(***************************************************************************)
(* A model of the shell's command interpretation engine:                   *)
(*   - ParseArgs, the quote- and escape-aware tokenizer                    *)
(*   - Executor.executePipe, the pipeline orchestrator, with the built-in  *)
(*     stages it runs as goroutines and the external stages it runs as     *)
(*     child processes                                                     *)
(*   - BellWrapper.Do and BellWrapper.OnChange, the tab completion, with   *)
(*     removeDuplicates and longestCommonPrefix                            *)
(*   - Executor.Execute, the dispatch of one line to the pipeline, to a    *)
(*     built-in or to executeExternal, with PathFinder.FindExecutable      *)
(*   - parseRedirection and BuiltinCommands.Execute called on their own    *)
(* A Go string is a sequence of one-character strings.  Each part has its  *)
(* own specification (ParseSpec, PipeSpec, CompSpec, LcpSpec, ExecSpec,    *)
(* CallSpec);                                                              *)
(* the variables of the other parts stay at their idle values.  RunsSpec   *)
(* follows Execute over the lines of one session, DirsSpec over the lines  *)
(* of a session that changes and prints the working directory.             *)
(***************************************************************************)
EXTENDS Integers, Sequences, FiniteSets, TLC

VARIABLES
    \* ---- ParseArgs: one scan of one input line
    input,      \* the line being tokenized
    pos,        \* loop index i (1-based)
    st,         \* [args, curr, inSingle, inDouble, escaped]
    ppc,        \* "idle" | "scan" | "done"
    result,     \* the returned []string once ppc = "done"
    \* ---- executePipe: one invocation, its tasks and its children
    commands,   \* per segment, the program its first word names
    pc,         \* the orchestrator's position in executePipe
    idx,        \* the index of the loop the orchestrator is in
    pipes,      \* the []*os.File of the pipe ends created so far
    closedBy,   \* per pipe end, who called Close() on the shell's file, in order
    cmds,       \* the stage indices of the prepared *exec.Cmd values
    proc,       \* per stage, its task or child process
    buf,        \* per pipe, the lines in the kernel buffer
    termOut,    \* the lines written to the terminal
    err,        \* "none" | "pipe" | "start": the returned error
    \* ---- BellWrapper: one completer and the calls the line editor makes
    innerSet,   \* w.Inner != nil
    tabPress,   \* w.tabPress, the turn-state
    rawMatches, \* the candidates w.Inner.Do returns
    rawOffset,  \* the offset w.Inner.Do returns
    curLine,    \* the line handed to Do
    curPos,     \* the cursor position handed to Do
    doRet,      \* what the last call of Do or OnChange returned
    doOut,      \* what the last call wrote to the terminal
    presses,    \* the consecutive calls of Do on the line as it is
    \* ---- longestCommonPrefix: one call
    lcpItems,   \* the argument
    lcpPc,      \* "idle" | "call" | "done"
    lcpRet,     \* the returned (string, int)
    \* ---- Executor.Execute: one call
    xInput,     \* the line handed to Execute
    xParts,     \* parts, the words ParseArgs made of it
    xPc,        \* "idle" | "call" | "parsed" | "done" | "exit" (the process ended)
    xVia,       \* the return statement taken: "pipe" | "empty" | "builtin" | "external"
    xOut,       \* the returned string
    xErr,       \* the returned error
    xBuf,       \* the bytes.Buffer handed to a built-in, and the error it returned
    xTerm,      \* what the call wrote to the shell's own standard output
    xRuns,      \* the child processes launched
    xOpens,     \* the calls of os.OpenFile for a redirection target
    xFile,      \* the file the redirection names
    xCwd,       \* the working directory
    xLimit,     \* history.MaxLen
    \* ---- parseRedirection and BuiltinCommands.Execute: one direct call
    callFn,     \* the function called
    callIn,     \* its arguments: [name, args]
    callPc,     \* "idle" | "call" | "done"
    callRet,    \* what it returned and did
    \* ---- the file system the search path is looked up in
    disk        \* per directory and file name, what os.Stat reports

parseVars == <<input, pos, st, ppc, result>>

pipeVars == <<commands, pc, idx, pipes, closedBy, cmds, proc, buf, termOut, err>>

compVars == <<innerSet, tabPress, rawMatches, rawOffset, curLine, curPos,
              doRet, doOut, presses>>

lcpVars == <<lcpItems, lcpPc, lcpRet>>

execVars == <<xInput, xParts, xPc, xVia, xOut, xErr, xBuf, xTerm, xRuns, xOpens, xFile,
              xCwd, xLimit>>

callVars == <<callFn, callIn, callPc, callRet>>

envVars == <<disk>>

\* what a step of one part leaves alone
notParse == <<pipeVars, compVars, lcpVars, execVars, callVars, envVars>>
notPipe == <<parseVars, compVars, lcpVars, execVars, callVars, envVars>>
notComp == <<parseVars, pipeVars, lcpVars, execVars, callVars, envVars>>
notLcp == <<parseVars, pipeVars, compVars, execVars, callVars, envVars>>
notExec == <<parseVars, pipeVars, compVars, lcpVars, callVars, envVars>>
notCall == <<parseVars, pipeVars, compVars, lcpVars, execVars, envVars>>

vars == <<input, pos, st, ppc, result,
          commands, pc, idx, pipes, closedBy, cmds, proc, buf, termOut, err,
          innerSet, tabPress, rawMatches, rawOffset, curLine, curPos,
          doRet, doOut, presses,
          lcpItems, lcpPc, lcpRet,
          xInput, xParts, xPc, xVia, xOut, xErr, xBuf, xTerm, xRuns, xOpens, xFile,
          xCwd, xLimit,
          callFn, callIn, callPc, callRet,
          disk>>

----------------------------------------------------------------------------
(* Bounds *)

\* longest enumerated input line
MaxLen == 5

\* most segments of an enumerated pipeline
MaxStages == 3

\* lines a pipe's kernel buffer holds before a write blocks
PipeCap == 1

\* lines the "emit" program writes, and lines the "tail" program keeps
EmitLines == 5
TailKeep == 3

\* most candidates the inner completer returns
MaxMatches == 3

\* most consecutive calls of Do followed on one line
MaxPresses == 4

\* most words after the command in an enumerated line of Execute
MaxArgs == 2

\* most redirected runs followed in one session
MaxRuns == 2

\* most arguments of a direct call of parseRedirection
MaxCallArgs == 3

\* lines on the terminal after which a session reads no further line
MaxPrints == 3

----------------------------------------------------------------------------
(* ParseArgs *)

BS == "\\"
SQ == "'"
DQ == "\""
SP == " "
TAB == "\t"

Alphabet == {"a", SP, TAB, SQ, DQ, BS}

RECURSIVE SeqsUpTo(_, _)
SeqsUpTo(S, n) ==
    IF n = 0 THEN {<<>>}
    ELSE LET shorter == SeqsUpTo(S, n - 1)
         IN  shorter \cup {Append(s, c) : s \in {t \in shorter : Len(t) = n - 1}, c \in S}

\* The lines of TestParseArgs and TestSingleQuote that the enumeration is too
\* short to contain.
TestLines ==
    { <<"e","c","h","o",SP,"f","o","o",SQ,SQ,"b","a","r">>,
      <<SQ,"a",SQ,SQ,"b",SQ,"c",SQ,SQ,"d",SQ,SQ,"e",SQ,"f">>,
      <<"e","c","h","o",SP,DQ,"A",SP,BS,SP,"e","s","c","a","p","e","s",SP,
        "i","t","s","e","l","f",DQ>>,
      <<"e","c","h","o",SP,SQ,"h","e","l","l","o",SP,"w","o","r","l","d",SQ>>,
      <<"e","c","h","o",SP,DQ,"a",DQ,DQ,"b",DQ,"c",DQ,DQ,"d",DQ>>,
      <<"w","o","r","l","d",BS,SP,BS,SP,"s","c","r","i","p","t">>,
      <<"e","c","h","o",SP,"t","e","s","t",BS,"n","e","x","a","m","p","l","e">> }

Inputs == SeqsUpTo(Alphabet, MaxLen) \cup TestLines

ParseStart ==
    [args |-> <<>>, curr |-> <<>>,
     inSingle |-> FALSE, inDouble |-> FALSE, escaped |-> FALSE]

\* mutant: the escaped character is written alone inside double quotes too
EscapedStep_DropBackslash(s, c) ==
    [s EXCEPT !.curr = Append(s.curr, c), !.escaped = FALSE]

\* mutant: the backslash is kept outside quotes too
EscapedStep_KeepBackslash(s, c) ==
    [s EXCEPT !.curr = s.curr \o (IF s.inDouble /\ (c = BS \/ c = DQ) THEN <<c>> ELSE <<BS, c>>),
              !.escaped = FALSE]

\* if escaped { ... escaped = false; continue }
EscapedStep(s, c) ==
    LET out == IF s.inDouble
               THEN IF c = BS \/ c = DQ THEN <<c>> ELSE <<BS, c>>
               ELSE <<c>>
    IN  [s EXCEPT !.curr = s.curr \o out, !.escaped = FALSE]

\* mutant: the !inSingle test is missing
StartsEscape_InSingle(s, c) == c = BS

\* if c == '\\' && !inSingle
StartsEscape(s, c) == c = BS /\ ~s.inSingle

\* if c == '\'' && !inDouble
TogglesSingle(s, c) == c = SQ /\ ~s.inDouble

\* mutant: the !inSingle test is missing
TogglesDouble_InSingle(s, c) == c = DQ

\* if c == '"' && !inSingle
TogglesDouble(s, c) == c = DQ /\ ~s.inSingle

\* if (c == ' ' || c == '\t') && !inSingle && !inDouble
Separates(s, c) == (c = SP \/ c = TAB) /\ ~s.inSingle /\ ~s.inDouble

\* mutant: the curr.Len() > 0 test is missing
Flush_KeepEmpty(s) == [s EXCEPT !.args = Append(s.args, s.curr), !.curr = <<>>]

\* if curr.Len() > 0 { args = append(args, curr.String()); curr.Reset() }
Flush(s) ==
    IF Len(s.curr) > 0
    THEN [s EXCEPT !.args = Append(s.args, s.curr), !.curr = <<>>]
    ELSE s

\* mutant: a single quote also ends the current argument
ToggleSingle_EndsArg(s) == Flush([s EXCEPT !.inSingle = ~s.inSingle])

\* inSingle = !inSingle; continue
ToggleSingle(s) == [s EXCEPT !.inSingle = ~s.inSingle]

\* inDouble = !inDouble; continue
ToggleDouble(s) == [s EXCEPT !.inDouble = ~s.inDouble]

\* one iteration of the for loop over input[i]
ParseStep(s, c) ==
    IF s.escaped THEN EscapedStep(s, c)
    ELSE IF StartsEscape(s, c) THEN [s EXCEPT !.escaped = TRUE]
    ELSE IF TogglesSingle(s, c) THEN ToggleSingle(s)
    ELSE IF TogglesDouble(s, c) THEN ToggleDouble(s)
    ELSE IF Separates(s, c) THEN Flush(s)
    ELSE [s EXCEPT !.curr = Append(s.curr, c)]

\* the scanner state after the first n characters of line
RECURSIVE ScanTo(_, _)
ScanTo(line, n) ==
    IF n = 0 THEN ParseStart ELSE ParseStep(ScanTo(line, n - 1), line[n])

\* ParseArgs as a function of its input
ParseArgs(line) == Flush(ScanTo(line, Len(line))).args

ParseIdle ==
    /\ input = <<>>
    /\ pos = 1
    /\ st = ParseStart
    /\ ppc = "idle"
    /\ result = <<>>

ParseInit ==
    /\ input \in Inputs
    /\ pos = 1
    /\ st = ParseStart
    /\ ppc = "scan"
    /\ result = <<>>

ParseLoop ==
    /\ ppc = "scan"
    /\ pos <= Len(input)
    /\ st' = ParseStep(st, input[pos])
    /\ pos' = pos + 1
    /\ UNCHANGED <<input, ppc, result>>
    /\ UNCHANGED notParse

\* mutant: the flush after the loop is missing
ParseReturn_NoFlush ==
    /\ ppc = "scan"
    /\ pos > Len(input)
    /\ result' = st.args
    /\ ppc' = "done"
    /\ UNCHANGED <<input, pos, st>>
    /\ UNCHANGED notParse

\* if curr.Len() > 0 { args = append(args, curr.String()) }; return args
ParseReturn ==
    /\ ppc = "scan"
    /\ pos > Len(input)
    /\ st' = Flush(st)
    /\ result' = Flush(st).args
    /\ ppc' = "done"
    /\ UNCHANGED <<input, pos>>
    /\ UNCHANGED notParse

ParseNext == ParseLoop \/ ParseReturn

----------------------------------------------------------------------------
(* Executor.executePipe *)

\* The registered built-ins, and the external programs the pipelines use:
\* "emit" writes the lines 1..EmitLines, "tail" reads to end-of-stream and
\* writes the last TailKeep lines, "count" reads to end-of-stream and writes
\* the number of lines read.
Builtins == {"echo", "type", "pwd", "cd", "exit", "history"}

\* The first word of a segment; "" is a segment with no word at all.  Of the
\* built-ins, echo writes one line and cd writes none; exit, which ends the
\* shell process, is not among the enumerated segments.
Segments == {"emit", "tail", "count", "echo", "cd", "history", "nosuch", ""}

IsBuiltin(name) == name \in Builtins

\* pf.paths, the directories of PATH in order
SearchPath == <<"/a", "/b">>

\* What os.Stat reports of a path: no such file (an error), a directory or a
\* regular file, and which of the execute bits 0100, 0010, 0001 are set.
Absent == [kind |-> "none", perm |-> {}]
Executable == [kind |-> "regular", perm |-> {"u", "g", "o"}]
PlainFile == [kind |-> "regular", perm |-> {}]
GroupExec == [kind |-> "regular", perm |-> {"g"}]
Directory == [kind |-> "dir", perm |-> {"u", "g", "o"}]

Dirs == {SearchPath[k] : k \in 1 .. Len(SearchPath)}

\* os.Stat(filepath.Join(p, command))
Stat(d, name) == IF name \in DOMAIN disk[d] THEN disk[d][name] ELSE Absent

\* mutant: whatever os.Stat finds is taken
Acceptable_AnyEntry(info) == info.kind # "none"

\* err == nil && info.Mode().IsRegular() && (info.Mode()&0111 != 0)
Acceptable(info) == info.kind = "regular" /\ info.perm # {}

\* fullPath == ""
NotFound == <<>>

\* for _, p := range pf.paths { ... return fp }; return ""   (from the k-th on)
RECURSIVE FindFrom(_, _)
FindFrom(name, k) ==
    IF k > Len(SearchPath) THEN NotFound
    ELSE IF Acceptable(Stat(SearchPath[k], name)) THEN <<SearchPath[k], name>>
    ELSE FindFrom(name, k + 1)

\* the full path as <<directory, name>>
FindExecutable(name) == FindFrom(name, 1)

\* the disk the pipelines run on: emit, tail and count are installed
PipeDisk ==
    [d \in Dirs |->
        IF d = "/a"
        THEN [n \in {"emit", "tail", "count"} |-> Executable]
        ELSE [n \in {"tail"} |-> Executable]]

EnvIdle == disk = PipeDisk

N == Len(commands)
Stages == 0 .. (MaxStages - 1)
Pipes == 0 .. (MaxStages - 2)

\* The files: the two ends of the p-th pipe created, and the terminal.
ReadEnd(p) == [f |-> "pipe", p |-> p, end |-> "r"]
WriteEnd(p) == [f |-> "pipe", p |-> p, end |-> "w"]
PipeEnds == {ReadEnd(p) : p \in Pipes} \cup {WriteEnd(p) : p \in Pipes}
OsStdin == [f |-> "stdin", p |-> 0, end |-> "r"]
OsStdout == [f |-> "stdout", p |-> 0, end |-> "w"]
OsStderr == [f |-> "stderr", p |-> 0, end |-> "w"]
NoFile == [f |-> "none", p |-> 0, end |-> "r"]

\* pipes[k] of the Go slice (0-based)
PipesAt(k) == pipes[k + 1]

\* number of pipes created so far
NPipes == Len(pipes) \div 2

\* mutant: an index slip takes the write end of the previous pipe
StdinFor_WriteEnd(i) == IF i = 0 THEN OsStdin ELSE PipesAt((i - 1) * 2 + 1)

\* if i == 0 { stdin = os.Stdin } else { stdin = pipes[(i-1)*2] }
StdinFor(i) == IF i = 0 THEN OsStdin ELSE PipesAt((i - 1) * 2)

\* if i == len(commands)-1 { stdout = os.Stdout } else { stdout = pipes[i*2+1] }
StdoutFor(i) == IF i = N - 1 THEN OsStdout ELSE PipesAt(i * 2 + 1)

\* the shell's *os.File h was created and Close() was not called on it
Created(h) == \E k \in 1 .. Len(pipes) : pipes[k] = h
FileOpen(h) == Created(h) /\ closedBy[h] = <<>>

IsTask(i) == proc[i].kind = "task"
IsChild(i) == proc[i].kind = "child"
Running(i) == proc[i].state = "run"

\* Open descriptors of a pipe end: the shell's own *os.File, and the copy a
\* started child holds until it exits (a task uses the shell's).  os.Pipe
\* sets close-on-exec, so a child holds only the ends given to it as
\* cmd.Stdin and cmd.Stdout.  A write to a pipe with no open read descriptor
\* would end the writer; the shell keeps its read ends open until every child
\* was waited for, so that never happens to a stage of the pipeline.
Holders(h) ==
    (IF FileOpen(h) THEN 1 ELSE 0)
    + Cardinality({i \in Stages : IsChild(i) /\ Running(i)
                                    /\ (proc[i].stdin = h \/ proc[i].stdout = h)})

Writers(p) == Holders(WriteEnd(p))

NoProc ==
    [kind |-> "none", state |-> "none", stdin |-> NoFile, stdout |-> NoFile,
     stderr |-> NoFile,
     phase |-> "none", rd |-> <<>>, wq |-> <<>>, eof |-> FALSE,
     sent |-> <<>>, lost |-> <<>>, tq |-> <<>>, direct |-> <<>>, diag |-> <<>>]

\* what a program does first: the built-ins never read their stdin
FirstPhase(name) == IF name \in {"tail", "count"} THEN "read" ELSE "write"

FirstOutput(name) ==
    IF name = "emit" THEN [n \in 1 .. EmitLines |-> n]
    ELSE IF name = "echo" THEN <<0>>
    ELSE <<>>

LastLines(s, n) == IF Len(s) <= n THEN s ELSE SubSeq(s, Len(s) - n + 1, Len(s))

\* what a reading program writes once its input is at end-of-stream
OutputAtEOF(name, rd) ==
    IF name = "tail" THEN LastLines(rd, TailKeep)
    ELSE IF name = "count" THEN <<Len(rd)>>
    ELSE <<>>

\* what a built-in prints with fmt.Printf, whatever stdout it was given:
\* history.Get prints the items, of which the line just read is one
DirectOutput(name) == IF name = "history" THEN <<0>> ELSE <<>>

\* cmd.Stderr = os.Stderr of an external stage; a built-in gets no stderr
StderrFor(kind) == IF kind = "child" THEN OsStderr ELSE NoFile

\* what a program may write to its stderr while it runs: nothing, or a line
Diagnostics == { <<>>, <<0>> }

Launch(i, kind, state) ==
    [NoProc EXCEPT !.kind = kind, !.state = state,
                   !.stdin = StdinFor(i), !.stdout = StdoutFor(i),
                   !.stderr = StderrFor(kind),
                   !.phase = FirstPhase(commands[i + 1]),
                   !.wq = FirstOutput(commands[i + 1]),
                   !.tq = DirectOutput(commands[i + 1])]

PipeIdle ==
    /\ commands = <<>>
    /\ pc = "idle"
    /\ idx = 0
    /\ pipes = <<>>
    /\ closedBy = [h \in PipeEnds |-> <<>>]
    /\ cmds = <<>>
    /\ proc = [i \in Stages |-> NoProc]
    /\ buf = [p \in Pipes |-> <<>>]
    /\ termOut = <<>>
    /\ err = "none"

Pipelines == {s \in SeqsUpTo(Segments, MaxStages) : Len(s) >= 2}

PipeInit ==
    /\ commands \in Pipelines
    /\ pc = "create"
    /\ idx = 0
    /\ pipes = <<>>
    /\ closedBy = [h \in PipeEnds |-> <<>>]
    /\ cmds = <<>>
    /\ proc = [i \in Stages |-> NoProc]
    /\ buf = [p \in Pipes |-> <<>>]
    /\ termOut = <<>>
    /\ err = "none"

\* where the orchestrator is after the start loop
AfterStart == "closeW"

\* mutant: the read ends are closed without waiting for the children
AfterCloseW_NoWait(cs) == "closeR"

\* where the orchestrator is after closing the write ends
AfterCloseW(cs) == IF cs = <<>> THEN "closeR" ELSE "wait"

\* ---- the orchestrator

\* r, w, err := os.Pipe(); pipes = append(pipes, r, w)
CreatePipe ==
    /\ pc = "create"
    /\ idx < N - 1
    /\ pipes' = pipes \o <<ReadEnd(idx), WriteEnd(idx)>>
    /\ idx' = IF idx + 1 < N - 1 THEN idx + 1 ELSE 0
    /\ pc' = IF idx + 1 < N - 1 THEN "create" ELSE "setup"
    /\ UNCHANGED <<commands, closedBy, cmds, proc, buf, termOut, err>>
    /\ UNCHANGED notPipe

\* mutant: the failure is recorded but construction goes on
CreatePipeFail_Continue ==
    /\ pc = "create"
    /\ idx < N - 1
    /\ err' = "pipe"
    /\ pc' = "setup"
    /\ idx' = 0
    /\ UNCHANGED <<commands, pipes, closedBy, cmds, proc, buf, termOut>>
    /\ UNCHANGED notPipe

\* if err != nil { return err }
CreatePipeFail ==
    /\ pc = "create"
    /\ idx < N - 1
    /\ err' = "pipe"
    /\ pc' = "done"
    /\ UNCHANGED <<commands, idx, pipes, closedBy, cmds, proc, buf, termOut>>
    /\ UNCHANGED notPipe

\* the end of one iteration of "for i, cmdParts := range commands"
SetupAdvance(cs) ==
    /\ idx' = IF idx + 1 < N THEN idx + 1 ELSE 0
    /\ pc' = IF idx + 1 < N THEN "setup"
             ELSE IF cs = <<>> THEN AfterStart ELSE "start"

\* if len(cmdParts) == 0 { continue }
SetupEmpty ==
    /\ pc = "setup"
    /\ commands[idx + 1] = ""
    /\ SetupAdvance(cmds)
    /\ UNCHANGED <<commands, pipes, closedBy, cmds, proc, buf, termOut, err>>
    /\ UNCHANGED notPipe

\* go func(name, args, in, out, isLast) { ... }(cmdName, cmdArgs, stdin, stdout, ...)
SetupBuiltin ==
    /\ pc = "setup"
    /\ commands[idx + 1] # ""
    /\ IsBuiltin(commands[idx + 1])
    /\ proc' = [proc EXCEPT ![idx] = Launch(idx, "task", "run")]
    /\ SetupAdvance(cmds)
    /\ UNCHANGED <<commands, pipes, closedBy, cmds, buf, termOut, err>>
    /\ UNCHANGED notPipe

\* mutant: a missing executable aborts the pipeline with an error
SetupMissing_Abort ==
    /\ pc = "setup"
    /\ commands[idx + 1] # ""
    /\ ~IsBuiltin(commands[idx + 1])
    /\ FindExecutable(commands[idx + 1]) = NotFound
    /\ err' = "notfound"
    /\ pc' = "done"
    /\ UNCHANGED <<commands, idx, pipes, closedBy, cmds, proc, buf, termOut>>
    /\ UNCHANGED notPipe

\* if fullPath == "" { continue }
SetupMissing ==
    /\ pc = "setup"
    /\ commands[idx + 1] # ""
    /\ ~IsBuiltin(commands[idx + 1])
    /\ FindExecutable(commands[idx + 1]) = NotFound
    /\ SetupAdvance(cmds)
    /\ UNCHANGED <<commands, pipes, closedBy, cmds, proc, buf, termOut, err>>
    /\ UNCHANGED notPipe

\* cmd := exec.Command(fullPath, cmdArgs...); ...; cmds = append(cmds, cmd)
SetupExternal ==
    /\ pc = "setup"
    /\ commands[idx + 1] # ""
    /\ ~IsBuiltin(commands[idx + 1])
    /\ FindExecutable(commands[idx + 1]) # NotFound
    /\ proc' = [proc EXCEPT ![idx] = Launch(idx, "child", "prepared")]
    /\ cmds' = Append(cmds, idx)
    /\ SetupAdvance(Append(cmds, idx))
    /\ UNCHANGED <<commands, pipes, closedBy, buf, termOut, err>>
    /\ UNCHANGED notPipe

\* cmd.Start() succeeds: the child holds its own copies of its two streams
StartCmd ==
    /\ pc = "start"
    /\ proc' = [proc EXCEPT ![cmds[idx + 1]].state = "run"]
    /\ idx' = IF idx + 1 < Len(cmds) THEN idx + 1 ELSE 0
    /\ pc' = IF idx + 1 < Len(cmds) THEN "start" ELSE AfterStart
    /\ UNCHANGED <<commands, pipes, closedBy, cmds, buf, termOut, err>>
    /\ UNCHANGED notPipe

\* if err := cmd.Start(); err != nil { return err }
StartCmdFail ==
    /\ pc = "start"
    /\ err' = "start"
    /\ pc' = "done"
    /\ UNCHANGED <<commands, idx, pipes, closedBy, cmds, proc, buf, termOut>>
    /\ UNCHANGED notPipe

\* for i := 1; i < len(pipes); i += 2 { pipes[i].Close() }
CloseWriteEnd ==
    /\ pc = "closeW"
    /\ closedBy' = [closedBy EXCEPT ![PipesAt(2 * idx + 1)] = Append(@, "orch")]
    /\ idx' = IF idx + 1 < NPipes THEN idx + 1 ELSE 0
    /\ pc' = IF idx + 1 < NPipes THEN "closeW" ELSE AfterCloseW(cmds)
    /\ UNCHANGED <<commands, pipes, cmds, proc, buf, termOut, err>>
    /\ UNCHANGED notPipe

\* for _, cmd := range cmds { cmd.Wait() }: returns once the child has exited
WaitCmd ==
    /\ pc = "wait"
    /\ proc[cmds[idx + 1]].state = "exit"
    /\ idx' = IF idx + 1 < Len(cmds) THEN idx + 1 ELSE 0
    /\ pc' = IF idx + 1 < Len(cmds) THEN "wait" ELSE "closeR"
    /\ UNCHANGED <<commands, pipes, closedBy, cmds, proc, buf, termOut, err>>
    /\ UNCHANGED notPipe

\* for i := 0; i < len(pipes); i += 2 { pipes[i].Close() }; return nil
CloseReadEnd ==
    /\ pc = "closeR"
    /\ closedBy' = [closedBy EXCEPT ![PipesAt(2 * idx)] = Append(@, "orch")]
    /\ idx' = IF idx + 1 < NPipes THEN idx + 1 ELSE 0
    /\ pc' = IF idx + 1 < NPipes THEN "closeR" ELSE "done"
    /\ UNCHANGED <<commands, pipes, cmds, proc, buf, termOut, err>>
    /\ UNCHANGED notPipe

\* ---- the stages: children (OS processes) and tasks (goroutines)

\* a child reads one line from the pipe on its stdin
ReadLine(i) ==
    /\ IsChild(i) /\ Running(i)
    /\ proc[i].phase = "read"
    /\ proc[i].stdin.f = "pipe"
    /\ buf[proc[i].stdin.p] # <<>>
    /\ proc' = [proc EXCEPT ![i].rd = Append(@, Head(buf[proc[i].stdin.p]))]
    /\ buf' = [buf EXCEPT ![proc[i].stdin.p] = Tail(@)]
    /\ UNCHANGED <<commands, pc, idx, pipes, closedBy, cmds, termOut, err>>
    /\ UNCHANGED notPipe

\* a child's read returns end-of-stream: the pipe is empty and no descriptor
\* of its write side is open (the terminal is taken to be at end-of-input)
ReadEOF(i) ==
    /\ IsChild(i) /\ Running(i)
    /\ proc[i].phase = "read"
    /\ \/ proc[i].stdin.f = "stdin"
       \/ /\ proc[i].stdin.f = "pipe"
          /\ buf[proc[i].stdin.p] = <<>>
          /\ Writers(proc[i].stdin.p) = 0
    /\ proc' = [proc EXCEPT ![i].eof = TRUE, ![i].phase = "write",
                            ![i].wq = OutputAtEOF(commands[i + 1], proc[i].rd)]
    /\ UNCHANGED <<commands, pc, idx, pipes, closedBy, cmds, buf, termOut, err>>
    /\ UNCHANGED notPipe

\* a stage writes one line to the terminal
WriteTerminal(i) ==
    /\ Running(i)
    /\ proc[i].phase = "write"
    /\ proc[i].wq # <<>>
    /\ proc[i].stdout.f = "stdout"
    /\ termOut' = Append(termOut, Head(proc[i].wq))
    /\ proc' = [proc EXCEPT ![i].wq = Tail(@), ![i].sent = Append(@, Head(proc[i].wq))]
    /\ UNCHANGED <<commands, pc, idx, pipes, closedBy, cmds, buf, err>>
    /\ UNCHANGED notPipe

\* the write of a task goes through the shell's *os.File, that of a child
\* through its own descriptor
CanWrite(i) == IsChild(i) \/ FileOpen(proc[i].stdout)

\* a stage writes one line into the pipe on its stdout; the write blocks
\* while the buffer is full
WritePipe(i) ==
    /\ Running(i)
    /\ proc[i].phase = "write"
    /\ proc[i].wq # <<>>
    /\ proc[i].stdout.f = "pipe"
    /\ CanWrite(i)
    /\ Len(buf[proc[i].stdout.p]) < PipeCap
    /\ buf' = [buf EXCEPT ![proc[i].stdout.p] = Append(@, Head(proc[i].wq))]
    /\ proc' = [proc EXCEPT ![i].wq = Tail(@), ![i].sent = Append(@, Head(proc[i].wq))]
    /\ UNCHANGED <<commands, pc, idx, pipes, closedBy, cmds, termOut, err>>
    /\ UNCHANGED notPipe

\* a task's write to an *os.File that was closed fails (os.ErrClosed); the
\* built-ins ignore the error of fmt.Fprintln and the line is gone
WriteClosed(i) ==
    /\ IsTask(i) /\ Running(i)
    /\ proc[i].phase = "write"
    /\ proc[i].wq # <<>>
    /\ proc[i].stdout.f = "pipe"
    /\ ~FileOpen(proc[i].stdout)
    /\ proc' = [proc EXCEPT ![i].wq = Tail(@), ![i].lost = Append(@, Head(proc[i].wq))]
    /\ UNCHANGED <<commands, pc, idx, pipes, closedBy, cmds, buf, termOut, err>>
    /\ UNCHANGED notPipe

\* a task prints a line with fmt.Printf: it goes to the shell's own standard
\* output, not to the stdout the task was given
WriteDirect(i) ==
    /\ IsTask(i) /\ Running(i)
    /\ proc[i].tq # <<>>
    /\ termOut' = Append(termOut, Head(proc[i].tq))
    /\ proc' = [proc EXCEPT ![i].tq = Tail(@), ![i].direct = Append(@, Head(proc[i].tq))]
    /\ UNCHANGED <<commands, pc, idx, pipes, closedBy, cmds, buf, err>>
    /\ UNCHANGED notPipe

\* a child has written all it has to and exits; its descriptors close with
\* it; diag is what it wrote to its stderr while it ran
ChildExit(i) ==
    /\ IsChild(i) /\ Running(i)
    /\ proc[i].phase = "write"
    /\ proc[i].wq = <<>>
    /\ \E d \in Diagnostics :
          proc' = [proc EXCEPT ![i].state = "exit", ![i].phase = "fin", ![i].diag = d]
    /\ UNCHANGED <<commands, pc, idx, pipes, closedBy, cmds, buf, termOut, err>>
    /\ UNCHANGED notPipe

\* e.builtins.Execute returned: defer func() { if !isLast { out.Close() } }()
TaskReturn(i) ==
    /\ IsTask(i) /\ Running(i)
    /\ proc[i].phase = "write"
    /\ proc[i].wq = <<>>
    /\ proc[i].tq = <<>>
    /\ proc' = [proc EXCEPT ![i].state = "exit", ![i].phase = "fin"]
    /\ closedBy' = IF i # N - 1
                   THEN [closedBy EXCEPT ![proc[i].stdout] = Append(@, "task")]
                   ELSE closedBy
    /\ UNCHANGED <<commands, pc, idx, pipes, cmds, buf, termOut, err>>
    /\ UNCHANGED notPipe

StageStep(i) ==
    \/ ReadLine(i)
    \/ ReadEOF(i)
    \/ WriteTerminal(i)
    \/ WritePipe(i)
    \/ WriteClosed(i)
    \/ WriteDirect(i)
    \/ ChildExit(i)
    \/ TaskReturn(i)

Orchestrator ==
    \/ CreatePipe
    \/ CreatePipeFail
    \/ SetupEmpty
    \/ SetupBuiltin
    \/ SetupMissing
    \/ SetupExternal
    \/ StartCmd
    \/ StartCmdFail
    \/ CloseWriteEnd
    \/ WaitCmd
    \/ CloseReadEnd

PipeNext == Orchestrator \/ \E i \in Stages : StageStep(i)

----------------------------------------------------------------------------
(* BellWrapper, removeDuplicates, longestCommonPrefix *)

NL == "\n"

\* the byte order of the characters candidates are made of
Ord(c) ==
    CASE c = TAB -> 9 [] c = NL -> 10 [] c = SP -> 32
      [] c = "c" -> 99 [] c = "e" -> 101 [] c = "h" -> 104 [] c = "i" -> 105
      [] c = "o" -> 111 [] c = "t" -> 116 [] c = "x" -> 120

\* string(a) < string(b)
RECURSIVE StrLess(_, _)
StrLess(a, b) ==
    IF b = <<>> THEN FALSE
    ELSE IF a = <<>> THEN TRUE
    ELSE IF Head(a) = Head(b) THEN StrLess(Tail(a), Tail(b))
    ELSE Ord(Head(a)) < Ord(Head(b))

\* the candidates the inner completer may return
CandNames ==
    { <<>>, <<"c">>, <<"e">>, <<"e", SP>>,
      <<"e","c","h","o">>, <<"e","x","i","t">> }

MatchLists == SeqsUpTo(CandNames, MaxMatches)

\* the lines the editor hands over
EditLines == { <<"e","c">>, <<"c",SP,"e">> }

\* Line, cursor and inner offset.  Do reads nothing of the line behind the
\* cursor, so the cursor is taken to be at the end of the line.
EditConfigs ==
    UNION { { [ln |-> l, p |-> Len(l), off |-> o] : o \in 0 .. Len(l) } : l \in EditLines }

\* line[offset:pos] and line[:offset] need 0 <= offset <= pos <= len(line)
ValidConfig(c) == 0 <= c.off /\ c.off <= c.p /\ c.p <= Len(c.ln)

Keys == {TAB, "e", SP}

InSeq(x, s) == \E k \in 1 .. Len(s) : s[k] = x

\* mutant: a candidate is dropped only when it repeats the one before it
RemoveFrom_Adjacent(ms, uniq) ==
    LET step(u, x) == IF u # <<>> /\ u[Len(u)] = x THEN u ELSE Append(u, x)
        F[k \in 0 .. Len(ms)] == IF k = 0 THEN uniq ELSE step(F[k - 1], ms[k])
    IN  F[Len(ms)]

\* for _, match := range matches { if !seen { uniqueMatches = append(...) } }
RemoveFrom(ms, uniq) ==
    LET step(u, x) == IF InSeq(x, u) THEN u ELSE Append(u, x)
        F[k \in 0 .. Len(ms)] == IF k = 0 THEN uniq ELSE step(F[k - 1], ms[k])
    IN  F[Len(ms)]

removeDuplicates(ms) == RemoveFrom(ms, <<>>)

RECURSIVE InsertSorted(_, _)
InsertSorted(s, x) ==
    IF s = <<>> THEN <<x>>
    ELSE IF StrLess(x, Head(s)) THEN <<x>> \o s
    ELSE <<Head(s)>> \o InsertSorted(Tail(s), x)

\* sort.Slice(matches, func(i, j) { return string(matches[i]) < string(matches[j]) })
RECURSIVE SortMatches(_)
SortMatches(ms) ==
    IF ms = <<>> THEN <<>> ELSE InsertSorted(SortMatches(Tail(ms)), Head(ms))

\* minLen over all items
MinLen(items) ==
    CHOOSE n \in {Len(items[k]) : k \in 1 .. Len(items)} :
        \A k \in 1 .. Len(items) : n <= Len(items[k])

\* mutant: only the second item is compared with the first
MismatchAt_SecondOnly(items, i) == items[2][i] # items[1][i]

\* for _, it := range items[1:] { if it[i] != ch { ... } }   (i is 1-based here)
MismatchAt(items, i) == \E k \in 2 .. Len(items) : items[k][i] # items[1][i]

\* prefixLen when the comparison loop is left, entered at index i
RECURSIVE CompareFrom(_, _, _)
CompareFrom(items, i, minLen) ==
    IF i > minLen THEN minLen
    ELSE IF MismatchAt(items, i) THEN i - 1
    ELSE CompareFrom(items, i + 1, minLen)

\* the returned (string, int)
longestCommonPrefix(items) ==
    IF Len(items) = 0 THEN [p |-> <<>>, n |-> 0]
    ELSE IF Len(items) = 1 THEN [p |-> items[1], n |-> Len(items[1])]
    ELSE IF MinLen(items) = 0 THEN [p |-> <<>>, n |-> 0]
    ELSE LET prefixLen == CompareFrom(items, 1, MinLen(items))
         IN  [p |-> SubSeq(items[1], 1, prefixLen), n |-> prefixLen]

\* strings.TrimSpace
RECURSIVE TrimLeft(_)
TrimLeft(s) ==
    IF s # <<>> /\ Head(s) \in {SP, TAB, NL} THEN TrimLeft(Tail(s)) ELSE s

RECURSIVE TrimRight(_)
TrimRight(s) ==
    IF s # <<>> /\ s[Len(s)] \in {SP, TAB, NL}
    THEN TrimRight(SubSeq(s, 1, Len(s) - 1)) ELSE s

TrimSpace(s) == TrimRight(TrimLeft(s))

\* strings.Join(strs, "  ")
RECURSIVE JoinTwoSp(_)
JoinTwoSp(strs) ==
    IF strs = <<>> THEN <<>>
    ELSE IF Len(strs) = 1 THEN strs[1]
    ELSE strs[1] \o <<SP, SP>> \o JoinTwoSp(Tail(strs))

\* return values and terminal output of one call
\* fn and key name the call; cands, off and ok are what it returned
NoRet == [fn |-> "none", key |-> "", cands |-> <<>>, off |-> 0, ok |-> FALSE]
RetNil == [NoRet EXCEPT !.fn = "Do", !.key = TAB]
Silent == [bell |-> FALSE, listed |-> <<>>, text |-> <<>>, refresh |-> FALSE]
Bell == [Silent EXCEPT !.bell = TRUE]

\* matches after removeDuplicates and sort.Slice
Matches == SortMatches(removeDuplicates(rawMatches))

Lcp == longestCommonPrefix(Matches)

\* currentPartialWord := line[offset:pos]
currentPartialWord == SubSeq(curLine, rawOffset + 1, curPos)

\* currentPrefix := string(line[:offset])
currentPrefix == SubSeq(curLine, 1, rawOffset)

\* strs: currentPrefix + strings.TrimSpace(string(s)) for every match
Strs == [k \in 1 .. Len(Matches) |-> currentPrefix \o TrimSpace(Matches[k])]

\* mutant: the entries are printed one to a line
Listing_NewlineJoined ==
    [bell |-> FALSE, listed |-> Strs,
     text |-> LET F[k \in 0 .. Len(Strs)] ==
                      IF k = 0 THEN <<>> ELSE F[k - 1] \o Strs[k] \o <<NL>>
              IN  <<NL>> \o F[Len(Strs)],
     refresh |-> TRUE]

\* fmt.Fprintf(os.Stdout, "\n%s\n", strings.Join(strs, "  ")); w.rl.Refresh()
Listing ==
    [bell |-> FALSE, listed |-> Strs,
     text |-> <<NL>> \o JoinTwoSp(Strs) \o <<NL>>, refresh |-> TRUE]

\* mutant: the listing does not ask for a second press
ListCondition_AnyPress ==
    \/ Lcp.n > 0 /\ currentPartialWord = Lcp.p
    \/ Lcp.n = 0

\* mutant: an LCP that is not longer than the partial word is not inserted
ListCondition_NotLonger ==
    \/ Lcp.n > 0 /\ currentPartialWord = Lcp.p /\ tabPress
    \/ Lcp.n = 0 /\ tabPress
    \/ Lcp.n > 0 /\ Lcp.n <= Len(currentPartialWord)

\* (length > 0 && string(currentPartialWord) == lcp && w.tabPress)
\*     || (length == 0 && w.tabPress)
ListCondition ==
    \/ Lcp.n > 0 /\ currentPartialWord = Lcp.p /\ tabPress
    \/ Lcp.n = 0 /\ tabPress

CompIdle ==
    /\ innerSet = FALSE
    /\ tabPress = FALSE
    /\ rawMatches = <<>>
    /\ rawOffset = 0
    /\ curLine = <<>>
    /\ curPos = 0
    /\ doRet = NoRet
    /\ doOut = Silent
    /\ presses = <<>>

\* &BellWrapper{Inner: base, tabPress: false}, and an inner completer that
\* answers every call with the same candidates
CompInit ==
    /\ innerSet \in BOOLEAN
    /\ tabPress = FALSE
    /\ rawMatches \in (IF innerSet THEN MatchLists ELSE {<<>>})
    /\ \E c \in EditConfigs :
        /\ ValidConfig(c)
        /\ curLine = c.ln /\ curPos = c.p /\ rawOffset = c.off
    /\ doRet = NoRet
    /\ doOut = Silent
    /\ presses = <<>>

\* one more call of Do on the line as it is
Pressed(did) == Append(presses, [armed |-> tabPress, did |-> did])

\* if w.Inner == nil { bell; return nil, 0 }
DoNoInner ==
    /\ Len(presses) < MaxPresses
    /\ ~innerSet
    /\ doRet' = RetNil
    /\ doOut' = Bell
    /\ presses' = Pressed("bell")
    /\ UNCHANGED <<innerSet, tabPress, rawMatches, rawOffset, curLine, curPos>>
    /\ UNCHANGED notComp

\* mutant: no match disarms the turn-state
DoNoMatch_Disarm ==
    /\ Len(presses) < MaxPresses
    /\ innerSet
    /\ Len(Matches) = 0
    /\ doRet' = RetNil
    /\ doOut' = Bell
    /\ tabPress' = FALSE
    /\ presses' = Pressed("bell")
    /\ UNCHANGED <<innerSet, rawMatches, rawOffset, curLine, curPos>>
    /\ UNCHANGED notComp

\* if len(matches) == 0 { bell; return nil, 0 }
DoNoMatch ==
    /\ Len(presses) < MaxPresses
    /\ innerSet
    /\ Len(Matches) = 0
    /\ doRet' = RetNil
    /\ doOut' = Bell
    /\ presses' = Pressed("bell")
    /\ UNCHANGED <<innerSet, tabPress, rawMatches, rawOffset, curLine, curPos>>
    /\ UNCHANGED notComp

\* else if len(matches) == 1 { return matches, offset }
DoOneMatch ==
    /\ Len(presses) < MaxPresses
    /\ innerSet
    /\ Len(Matches) = 1
    /\ doRet' = [RetNil EXCEPT !.cands = Matches, !.off = rawOffset]
    /\ doOut' = Silent
    /\ presses' = Pressed("insert")
    /\ UNCHANGED <<innerSet, tabPress, rawMatches, rawOffset, curLine, curPos>>
    /\ UNCHANGED notComp

\* list all options: w.tabPress = false; print; w.rl.Refresh(); return nil, 0
DoList ==
    /\ Len(presses) < MaxPresses
    /\ innerSet
    /\ Len(Matches) >= 2
    /\ ListCondition
    /\ tabPress' = FALSE
    /\ doRet' = RetNil
    /\ doOut' = Listing
    /\ presses' = Pressed("list")
    /\ UNCHANGED <<innerSet, rawMatches, rawOffset, curLine, curPos>>
    /\ UNCHANGED notComp

\* mutant: the whole sorted match list is returned
DoInsertLCP_AllMatches ==
    /\ Len(presses) < MaxPresses
    /\ innerSet
    /\ Len(Matches) >= 2
    /\ ~ListCondition
    /\ Lcp.n > 0
    /\ tabPress' = TRUE
    /\ doRet' = [RetNil EXCEPT !.cands = Matches, !.off = rawOffset]
    /\ doOut' = Silent
    /\ presses' = Pressed("insert")
    /\ UNCHANGED <<innerSet, rawMatches, rawOffset, curLine, curPos>>
    /\ UNCHANGED notComp

\* else if length > 0 { w.tabPress = true; return [][]rune{[]rune(lcp)}, offset }
DoInsertLCP ==
    /\ Len(presses) < MaxPresses
    /\ innerSet
    /\ Len(Matches) >= 2
    /\ ~ListCondition
    /\ Lcp.n > 0
    /\ tabPress' = TRUE
    /\ doRet' = [RetNil EXCEPT !.cands = <<Lcp.p>>, !.off = rawOffset]
    /\ doOut' = Silent
    /\ presses' = Pressed("insert")
    /\ UNCHANGED <<innerSet, rawMatches, rawOffset, curLine, curPos>>
    /\ UNCHANGED notComp

\* else { w.tabPress = true; bell; return nil, 0 }
DoBell ==
    /\ Len(presses) < MaxPresses
    /\ innerSet
    /\ Len(Matches) >= 2
    /\ ~ListCondition
    /\ Lcp.n = 0
    /\ tabPress' = TRUE
    /\ doRet' = RetNil
    /\ doOut' = Bell
    /\ presses' = Pressed("bell")
    /\ UNCHANGED <<innerSet, rawMatches, rawOffset, curLine, curPos>>
    /\ UNCHANGED notComp

\* BellWrapper.Do
Do == DoNoInner \/ DoNoMatch \/ DoOneMatch \/ DoList \/ DoInsertLCP \/ DoBell

\* mutant: every key resets the turn-state
OnChange_AnyKey(key) ==
    /\ tabPress' = FALSE
    /\ doRet' = [NoRet EXCEPT !.fn = "OnChange", !.key = key]
    /\ doOut' = Silent
    /\ presses' = IF key # TAB THEN <<>> ELSE presses
    /\ UNCHANGED <<innerSet, rawMatches, rawOffset, curLine, curPos>>
    /\ UNCHANGED notComp

\* BellWrapper.OnChange: if key != '\t' { w.tabPress = false }; return nil, 0, false
OnChange(key) ==
    /\ tabPress' = IF key # TAB THEN FALSE ELSE tabPress
    /\ doRet' = [NoRet EXCEPT !.fn = "OnChange", !.key = key]
    /\ doOut' = Silent
    /\ presses' = IF key # TAB THEN <<>> ELSE presses
    /\ UNCHANGED <<innerSet, rawMatches, rawOffset, curLine, curPos>>
    /\ UNCHANGED notComp

\* the editor changes the line (it inserts what Do returned, or the user's
\* key): the next call of Do gets another line, cursor and inner offset
EditLine ==
    /\ \E c \in EditConfigs :
        /\ ValidConfig(c)
        /\ <<c.ln, c.p, c.off>> # <<curLine, curPos, rawOffset>>
        /\ curLine' = c.ln /\ curPos' = c.p /\ rawOffset' = c.off
    /\ presses' = <<>>
    /\ doRet' = NoRet
    /\ doOut' = Silent
    /\ UNCHANGED <<innerSet, tabPress, rawMatches>>
    /\ UNCHANGED notComp

\* w.Inner.Do(line, pos) has another answer for a line that was changed
InnerAnswers ==
    /\ innerSet
    /\ doRet = NoRet
    /\ rawMatches' \in MatchLists \ {rawMatches}
    /\ UNCHANGED <<innerSet, tabPress, rawOffset, curLine, curPos, doRet, doOut, presses>>
    /\ UNCHANGED notComp

CompNext == Do \/ (\E key \in Keys : OnChange(key)) \/ EditLine \/ InnerAnswers

LcpIdle ==
    /\ lcpItems = <<>>
    /\ lcpPc = "idle"
    /\ lcpRet = [p |-> <<>>, n |-> 0]

LcpInit ==
    /\ lcpItems \in MatchLists
    /\ lcpPc = "call"
    /\ lcpRet = [p |-> <<>>, n |-> 0]

\* lcp, length := longestCommonPrefix(items)
LcpCall ==
    /\ lcpPc = "call"
    /\ lcpRet' = longestCommonPrefix(lcpItems)
    /\ lcpPc' = "done"
    /\ UNCHANGED lcpItems
    /\ UNCHANGED notLcp

LcpNext == LcpCall

----------------------------------------------------------------------------
(* Executor.Execute, executeExternal, parseRedirection and the built-ins *)

\* the names the lines are made of: the built-ins and a program
KnownNames == Builtins \cup {"ls"}

\* a name as the characters of the line
Spell ==
    [n \in KnownNames |->
      CASE n = "echo" -> <<"e","c","h","o">> []
           n = "type" -> <<"t","y","p","e">> []
           n = "pwd" -> <<"p","w","d">> []
           n = "cd" -> <<"c","d">> []
           n = "exit" -> <<"e","x","i","t">> []
           n = "history" -> <<"h","i","s","t","o","r","y">> []
           n = "ls" -> <<"l","s">>]

\* the name a word of the line spells; "?" is a name nobody knows
NameOf(word) ==
    IF \E n \in KnownNames : Spell[n] = word
    THEN CHOOSE n \in KnownNames : Spell[n] = word
    ELSE "?"

CmdWords == {Spell[n] : n \in KnownNames}

ArgWords ==
    { <<"H","e","l","l","o">>, <<"7">>, <<"~">>, <<"/","x">>,
      <<">">>, <<"f">>, <<"-","r">>, <<"l","s">>, <<"e","c","h","o">> }

\* strings.Join(elems, sep)
RECURSIVE Join(_, _)
Join(elems, sep) ==
    IF elems = <<>> THEN <<>>
    ELSE IF Len(elems) = 1 THEN elems[1]
    ELSE elems[1] \o sep \o Join(Tail(elems), sep)

\* lines the read loop may hand to Execute besides a command and its words
ExtraLines ==
    { <<>>, <<SP, TAB>>,
      <<SP>> \o <<"e","c","h","o">> \o <<SP, SP>> \o <<"H","e","l","l","o">> \o <<TAB>>,
      <<"e","c","h","o">> \o <<SP, SQ>> \o <<"H","e","l","l","o">> \o <<SP, SP>> \o <<"W","o","r","l","d">> \o <<SQ>>,
      <<"e","c","h","o">> \o <<SP>> \o <<"H","e","l","l","o">> \o <<SP, "|", SP>> \o <<"l","s">>,
      <<"e","c","h","o">> \o <<SP, DQ, "a", ">", "b", DQ>>,
      <<"e","c","h","o">> \o <<SP, SQ, "a", NL, SQ>>,
      <<"l","s">> \o <<SP, BS, ">", SP, "f">>,
      <<"l","s">> \o <<SP, ">", SP, SQ, SQ>>,
      <<"e","c","h","o",SP,"H","e","l","l","o",SP,"W","o","r","l","d">> }

\* the operators of the switch in executeExternal, and one it does not name
RedirOps ==
    { <<">">>, <<"1",">">>, <<">",">">>, <<"1",">",">">>, <<"2",">">>, <<"2",">",">">>,
      <<"3",">">> }

\* a program or a built-in, with or without a word, redirected to the file f
RedirLines ==
    { Join(<<c>> \o pre \o <<op, <<"f">>>>, <<SP>>) :
        c \in { <<"l","s">>, <<"e","c","h","o">> },
        pre \in { <<>>, << <<"H","e","l","l","o">> >> },
        op \in RedirOps }

ExecLines ==
    { Join(<<c>> \o as, <<SP>>) : c \in CmdWords, as \in SeqsUpTo(ArgWords, MaxArgs) }
    \cup ExtraLines \cup RedirLines

\* strings.Contains(s, c) for a one-character c
Contains(s, c) == \E k \in 1 .. Len(s) : s[k] = c

\* mutant: every trailing newline is removed
RECURSIVE TrimSuffixNL_All(_)
TrimSuffixNL_All(s) ==
    IF s # <<>> /\ s[Len(s)] = NL THEN TrimSuffixNL_All(SubSeq(s, 1, Len(s) - 1)) ELSE s

\* strings.TrimSuffix(s, "\n")
TrimSuffixNL(s) ==
    IF s # <<>> /\ s[Len(s)] = NL THEN SubSeq(s, 1, Len(s) - 1) ELSE s

\* an error value: nil, or an error with its text
NilErr == [nil |-> TRUE, text |-> <<>>]
Errorf(text) == [nil |-> FALSE, text |-> text]

\* the text of an error the operating system reports
OsErrText == <<"E","I","O">>

\* the directories os.Chdir accepts, and the user's home directory
Home == <<"/","h">>
ExistingDirs == { <<"/","x">>, Home }

\* the full path <<dir, name>> as text: filepath.Join(p, command)
PathText(fp, word) == (IF fp[1] = "/a" THEN <<"/","a">> ELSE <<"/","b">>) \o <<"/">> \o word

Digits == <<"0", "1", "2", "3", "4", "5", "6", "7", "8", "9">>

\* strconv.Atoi(s): whether it succeeds (the lines hold no signed numbers)
IsNumeric(word) ==
    /\ word # <<>>
    /\ \A k \in 1 .. Len(word) : \E v \in 1 .. Len(Digits) : Digits[v] = word[k]

DigitVal(c) == (CHOOSE v \in 1 .. Len(Digits) : Digits[v] = c) - 1

\* strconv.Atoi(s): its value
RECURSIVE Atoi(_)
Atoi(word) ==
    IF word = <<>> THEN 0
    ELSE 10 * Atoi(SubSeq(word, 1, Len(word) - 1)) + DigitVal(word[Len(word)])

\* "%d" of an index below ten
Digit(i) == <<Digits[i + 1]>>

\* history.MaxLen: math.MaxInt64 until "history <n>" sets it
NoLimit == [set |-> FALSE, n |-> 0]

\* what one call of a built-in handler does: what it writes to the stdout
\* handle it was given (buf), the error it returns, what it writes to the
\* process's own standard output (term), whether it ends the process
\* (exits), and the working directory and history.MaxLen it leaves
Outcome(b, e, t, x, d) ==
    [buf |-> b, err |-> e, term |-> t, exits |-> x, cwd |-> d, limit |-> NoLimit]

\* EchoCommand.Execute
EchoOutcomes(args, cwd) ==
    { Outcome(Join(args, <<SP>>) \o <<NL>>, NilErr, <<>>, FALSE, cwd) }

\* mutant: the search path is asked before the command table
TypeOutcomes_PathFirst(args, cwd) ==
    IF Len(args) = 0 THEN { Outcome(<<>>, NilErr, <<>>, FALSE, cwd) }
    ELSE IF FindExecutable(NameOf(args[1])) # NotFound
         THEN { Outcome(args[1] \o <<SP,"i","s",SP>>
                        \o PathText(FindExecutable(NameOf(args[1])), args[1]) \o <<NL>>,
                        NilErr, <<>>, FALSE, cwd) }
    ELSE IF IsBuiltin(NameOf(args[1]))
         THEN { Outcome(args[1] \o <<SP,"i","s",SP,"a",SP,"s","h","e","l","l",SP,"b","u","i","l","t","i","n">> \o <<NL>>, NilErr, <<>>, FALSE, cwd) }
    ELSE { Outcome(args[1] \o <<":",SP,"n","o","t",SP,"f","o","u","n","d">> \o <<NL>>, NilErr, <<>>, FALSE, cwd) }

\* TypeCommand.Execute
TypeOutcomes(args, cwd) ==
    IF Len(args) = 0 THEN { Outcome(<<>>, NilErr, <<>>, FALSE, cwd) }
    ELSE IF IsBuiltin(NameOf(args[1]))
         THEN { Outcome(args[1] \o <<SP,"i","s",SP,"a",SP,"s","h","e","l","l",SP,"b","u","i","l","t","i","n">> \o <<NL>>, NilErr, <<>>, FALSE, cwd) }
    ELSE IF FindExecutable(NameOf(args[1])) # NotFound
         THEN { Outcome(args[1] \o <<SP,"i","s",SP>>
                        \o PathText(FindExecutable(NameOf(args[1])), args[1]) \o <<NL>>,
                        NilErr, <<>>, FALSE, cwd) }
    ELSE { Outcome(args[1] \o <<":",SP,"n","o","t",SP,"f","o","u","n","d">> \o <<NL>>, NilErr, <<>>, FALSE, cwd) }

\* PwdCommand.Execute: os.Getwd may fail
PwdOutcomes(args, cwd) ==
    { Outcome(cwd \o <<NL>>, NilErr, <<>>, FALSE, cwd),
      Outcome(<<>>, Errorf(<<"p","w","d",":",SP>> \o OsErrText), <<>>, FALSE, cwd) }

\* mutant: only the bare cd goes home; "~" is taken as a path
CdOutcomes_TildeLiteral(args, cwd) ==
    LET goHome == Len(args) = 0
        targetDir == IF goHome THEN Home ELSE args[1]
        chdir == IF targetDir \in ExistingDirs
                 THEN Outcome(<<>>, NilErr, <<>>, FALSE, targetDir)
                 ELSE Outcome(<<>>, Errorf(<<"c","d",":",SP>> \o targetDir \o <<":",SP,"N","o",SP,"s","u","c","h",SP,"f","i","l","e",SP,"o","r",SP,"d","i","r","e","c","t","o","r","y">>),
                              <<>>, FALSE, cwd)
    IN  {chdir} \cup (IF goHome
                      THEN { Outcome(<<>>, Errorf(<<"c","d",":",SP>> \o OsErrText), <<>>, FALSE, cwd) }
                      ELSE {})

\* CdCommand.Execute: os.UserHomeDir may fail; os.Chdir fails for a
\* directory that is not there
CdOutcomes(args, cwd) ==
    LET goHome == Len(args) = 0 \/ args[1] = <<"~">>
        targetDir == IF goHome THEN Home ELSE args[1]
        chdir == IF targetDir \in ExistingDirs
                 THEN Outcome(<<>>, NilErr, <<>>, FALSE, targetDir)
                 ELSE Outcome(<<>>, Errorf(<<"c","d",":",SP>> \o targetDir \o <<":",SP,"N","o",SP,"s","u","c","h",SP,"f","i","l","e",SP,"o","r",SP,"d","i","r","e","c","t","o","r","y">>),
                              <<>>, FALSE, cwd)
    IN  {chdir} \cup (IF goHome
                      THEN { Outcome(<<>>, Errorf(<<"c","d",":",SP>> \o OsErrText), <<>>, FALSE, cwd) }
                      ELSE {})

\* ExitCommand.Execute: the process ends in os.Exit and the call never returns
ExitOutcomes(args, cwd) ==
    IF Len(args) > 0 /\ ~IsNumeric(args[1])
    THEN { Outcome(<<"e","x","i","t",":",SP>> \o args[1] \o <<":",SP,"n","u","m","e","r","i","c",SP,"a","r","g","u","m","e","n","t",SP,"r","e","q","u","i","r","e","d">> \o <<NL>>, NilErr, <<>>, TRUE, cwd) }
    ELSE { Outcome(<<>>, NilErr, <<>>, TRUE, cwd) }

\* the line "%d  %s\n" history.Get prints for item i
HistoryLine(i, item) == Digit(i) \o <<SP, SP>> \o item \o <<NL>>

\* History.Get: fmt.Printf of the last MaxLen items (the items are the line
\* just read; MaxLen is unlimited unless "history <n>" sets it)
HistoryGet(items, limit) ==
    LET total == Len(items)
        start == IF ~limit.set \/ total - limit.n < 0 THEN 0 ELSE total - limit.n
        F[k \in 0 .. total] ==
            IF k = 0 THEN <<>>
            ELSE IF k - 1 >= start THEN F[k - 1] \o HistoryLine(k - 1, items[k])
            ELSE F[k - 1]
    IN  F[total]

\* HistoryCommand.Execute: -r, -w and -a read or write the history file, which
\* may fail; everything else ends in history.Get
HistoryOutcomes(args, cwd, items, limit) ==
    IF Len(args) = 2 /\ args[1] \in { <<"-","r">>, <<"-","w">>, <<"-","a">> }
    THEN { [o EXCEPT !.limit = limit] :
             o \in { Outcome(<<>>, NilErr, <<>>, FALSE, cwd),
                     Outcome(<<>>, Errorf(<<"h","i","s","t","o","r","y",":",SP>> \o <<"e","r","r","o","r",SP,"o","p","e","n","i","n","g",SP,"h","i","s","t","o","r","y",SP,"f","i","l","e">>), <<>>, FALSE, cwd) } }
    ELSE LET newLimit == IF Len(args) = 1 /\ IsNumeric(args[1])
                         THEN [set |-> TRUE, n |-> Atoi(args[1])]
                         ELSE limit
         IN  { [Outcome(<<>>, NilErr, HistoryGet(items, newLimit), FALSE, cwd)
                  EXCEPT !.limit = newLimit] }

\* cmd.Execute(args, stdin, stdout) of the registered command; only the
\* history command changes history.MaxLen
BuiltinOutcomes(name, args, cwd, items, limit) ==
    LET Keep(os) == {[o EXCEPT !.limit = limit] : o \in os} IN
    CASE name = "echo" -> Keep(EchoOutcomes(args, cwd))
      [] name = "type" -> Keep(TypeOutcomes(args, cwd))
      [] name = "pwd" -> Keep(PwdOutcomes(args, cwd))
      [] name = "cd" -> Keep(CdOutcomes(args, cwd))
      [] name = "exit" -> Keep(ExitOutcomes(args, cwd))
      [] name = "history" -> HistoryOutcomes(args, cwd, items, limit)


\* mutant: the message goes to stdout and no error is returned
BuiltinExecute_WritesMessage(word, args, cwd, items, limit) ==
    IF IsBuiltin(NameOf(word))
    THEN BuiltinOutcomes(NameOf(word), args, cwd, items, limit)
    ELSE { [Outcome(word \o <<":",SP,"c","o","m","m","a","n","d",SP,"n","o","t",SP,"f","o","u","n","d">> \o <<NL>>, NilErr, <<>>, FALSE, cwd)
              EXCEPT !.limit = limit] }

\* BuiltinCommands.Execute(name, args, stdin, stdout): the handler of a
\* registered name, else the error "%s: command not found"
BuiltinExecute(word, args, cwd, items, limit) ==
    IF IsBuiltin(NameOf(word))
    THEN BuiltinOutcomes(NameOf(word), args, cwd, items, limit)
    ELSE { [Outcome(<<>>, Errorf(word \o <<":",SP,"c","o","m","m","a","n","d",SP,"n","o","t",SP,"f","o","u","n","d">>), <<>>, FALSE, cwd)
              EXCEPT !.limit = limit] }

\* the file a redirection may name: not there, or there with a line in it
Missing == [there |-> FALSE, text |-> <<>>]
Existing == [there |-> TRUE, text |-> <<"o", NL>>]

\* what becomes of a child: whether it could be started, what it writes to
\* its standard output and to its standard error, and whether cmd.Run /
\* cmd.Output report success
ChildRuns ==
    [started : {TRUE},
     out : { <<>>, <<"x", NL>>, <<"x", NL, NL>> },
     errOut : { <<>>, <<"E", NL>> },
     ok : BOOLEAN]
    \cup { [started |-> FALSE, out |-> <<>>, errOut |-> <<>>, ok |-> FALSE] }

\* the text of the error cmd.Output returns for a child that failed
ExitErrText == <<"e","x","i","t",SP,"s","t","a","t","u","s",SP,"1">>

\* the program whose search-path entries differ from disk to disk: the
\* operand of type, else the command of the line
Subject(line) ==
    LET parts == ParseArgs(TrimSpace(line))
    IN  IF parts = <<>> THEN "?"
        ELSE IF NameOf(parts[1]) = "type" /\ Len(parts) > 1 THEN NameOf(parts[2])
        ELSE NameOf(parts[1])

Infos == {Absent, Directory, PlainFile, Executable, GroupExec}

\* the disks a line may be run on: every pair of entries for its subject in
\* the two directories (one disk for a line that never looks at the path)
ExecDisks(line) ==
    LET parts == ParseArgs(TrimSpace(line))
        subject == Subject(line)
        looks == /\ parts # <<>>
                 /\ \/ NameOf(parts[1]) \in {"type", "?", "ls"}
                    \/ Contains(line, ">")
    IN  {[d \in Dirs |-> [n \in {subject} |-> IF d = "/a" THEN ia ELSE ib]] :
            ia \in IF looks THEN Infos ELSE {Absent},
            ib \in IF looks THEN Infos ELSE {Absent}}

\* the working directories a line may be run in (one for a line that never
\* looks at it)
ExecDirs(line) ==
    IF Subject(line) \in {"cd", "pwd"} THEN ExistingDirs ELSE {Home}

\* the input of Execute after strings.TrimSpace
Trimmed == TrimSpace(xInput)

\* command := parts[0]; args := parts[1:]
Command == xParts[1]
CmdArgs == Tail(xParts)

\* fullPath := e.pathFinder.FindExecutable(command)
FullPath == FindExecutable(NameOf(Command))

\* fmt.Errorf("%s: command not found", command)
CommandNotFound(command) == Errorf(command \o <<":",SP,"c","o","m","m","a","n","d",SP,"n","o","t",SP,"f","o","u","n","d">>)

\* mutant: a trailing word holding '>' is an operator without a target
parseRedirection_LoneOperator(args) ==
    IF Len(args) >= 1 /\ Contains(args[Len(args)], ">")
    THEN [type |-> args[Len(args)], file |-> <<>>,
          args |-> SubSeq(args, 1, Len(args) - 1)]
    ELSE IF Len(args) < 2 THEN [type |-> <<>>, file |-> <<>>, args |-> args]
    ELSE IF Contains(args[Len(args) - 1], ">")
         THEN [type |-> args[Len(args) - 1], file |-> args[Len(args)],
               args |-> SubSeq(args, 1, Len(args) - 2)]
    ELSE [type |-> <<>>, file |-> <<>>, args |-> args]

\* parseRedirection(args): redirectType, outputFile, actualArgs
parseRedirection(args) ==
    IF Len(args) < 2 THEN [type |-> <<>>, file |-> <<>>, args |-> args]
    ELSE IF Contains(args[Len(args) - 1], ">")
         THEN [type |-> args[Len(args) - 1], file |-> args[Len(args)],
               args |-> SubSeq(args, 1, Len(args) - 2)]
    ELSE [type |-> <<>>, file |-> <<>>, args |-> args]

Redirection == parseRedirection(CmdArgs)

\* mutant: every operator appends
IsAppend_Always(type) == Contains(type, ">")

\* strings.Contains(redirectType, ">>")
IsAppend(type) == \E k \in 1 .. Len(type) - 1 : type[k] = ">" /\ type[k + 1] = ">"

\* case ">", "1>", ">>", "1>>"
ToStdout(type) == type \in { <<">">>, <<"1", ">">>, <<">", ">">>, <<"1", ">", ">">> }

\* case "2>", "2>>"
ToStderr(type) == type \in { <<"2", ">">>, <<"2", ">", ">">> }

\* exec.Command(command, actualArgs...) with cmd.Path = fullPath, and what
\* became of the child
Child(run) ==
    [path |-> FullPath, argv |-> <<Command>> \o Redirection.args,
     started |-> run.started, out |-> run.out, errOut |-> run.errOut, ok |-> run.ok]

ExecIdle ==
    /\ xInput = <<>>
    /\ xParts = <<>>
    /\ xPc = "idle"
    /\ xVia = "none"
    /\ xOut = <<>>
    /\ xErr = NilErr
    /\ xBuf = [made |-> FALSE, text |-> <<>>, ret |-> NilErr]
    /\ xTerm = <<>>
    /\ xRuns = <<>>
    /\ xOpens = <<>>
    /\ xFile = Missing
    /\ xCwd = Home
    /\ xLimit = NoLimit

\* one line read by the loop and handed to Execute
ExecInit ==
    /\ xInput \in ExecLines
    /\ xParts = <<>>
    /\ xPc = "call"
    /\ xVia = "none"
    /\ xOut = <<>>
    /\ xErr = NilErr
    /\ xBuf = [made |-> FALSE, text |-> <<>>, ret |-> NilErr]
    /\ xTerm = <<>>
    /\ xRuns = <<>>
    /\ xOpens = <<>>
    /\ xFile \in (IF Contains(xInput, ">") THEN {Missing, Existing} ELSE {Missing})
    /\ xCwd \in ExecDirs(xInput)
    /\ xLimit = NoLimit
    /\ disk \in ExecDisks(xInput)

\* Execute returns (out, err) by the named path
Return(via, out, e) ==
    /\ xPc' = "done"
    /\ xVia' = via
    /\ xOut' = out
    /\ xErr' = e

\* if strings.Contains(input, "|") { return "", e.executePipe(input) }
\* (the pipeline's own steps are those of executePipe above)
ExecutePipe ==
    /\ xPc = "call"
    /\ Contains(Trimmed, "|")
    /\ \E e \in {NilErr, Errorf(OsErrText)} : Return("pipe", <<>>, e)
    /\ UNCHANGED <<xInput, xParts, xBuf, xTerm, xRuns, xOpens, xFile, xCwd, xLimit>>
    /\ UNCHANGED notExec

\* parts := ParseArgs(input); if len(parts) == 0 { return "", nil }
ExecuteEmpty ==
    /\ xPc = "call"
    /\ ~Contains(Trimmed, "|")
    /\ LET parts == ParseArgs(Trimmed)
       IN  /\ Len(parts) = 0
           /\ xParts' = parts
    /\ Return("empty", <<>>, NilErr)
    /\ UNCHANGED <<xInput, xBuf, xTerm, xRuns, xOpens, xFile, xCwd, xLimit>>
    /\ UNCHANGED notExec

\* parts := ParseArgs(input) with a word in it
ExecuteParse ==
    /\ xPc = "call"
    /\ ~Contains(Trimmed, "|")
    /\ LET parts == ParseArgs(Trimmed)
       IN  /\ Len(parts) > 0
           /\ xParts' = parts
    /\ xPc' = "parsed"
    /\ UNCHANGED <<xInput, xVia, xOut, xErr, xBuf, xTerm, xRuns, xOpens, xFile,
                   xCwd, xLimit>>
    /\ UNCHANGED notExec

\* mutant: a built-in is taken whatever the line holds
TakesBuiltin_AnyLine == IsBuiltin(NameOf(Command))

\* if e.builtins.IsBuiltin(command) && !strings.Contains(input, ">")
TakesBuiltin ==
    /\ IsBuiltin(NameOf(Command))
    /\ ~Contains(Trimmed, ">")

\* var buf bytes.Buffer; err := e.builtins.Execute(command, args, os.Stdin, &buf)
\* and the return that follows; the exit command ends the process in the
\* handler, so Execute does not return
ExecuteBuiltin ==
    /\ xPc = "parsed"
    /\ TakesBuiltin
    /\ \E o \in BuiltinExecute(Command, CmdArgs, xCwd, <<xInput>>, xLimit) :
          /\ xBuf' = [made |-> TRUE, text |-> o.buf, ret |-> o.err]
          /\ xTerm' = xTerm \o o.term
          /\ xCwd' = o.cwd
          /\ xLimit' = o.limit
          /\ IF o.exits
             THEN /\ xPc' = "exit"
                  /\ xVia' = "builtin"
                  /\ UNCHANGED <<xOut, xErr>>
             ELSE IF o.err.nil
                  THEN Return("builtin", TrimSuffixNL(o.buf), NilErr)
                  ELSE Return("builtin", <<>>, o.err)
    /\ UNCHANGED <<xInput, xParts, xRuns, xOpens, xFile>>
    /\ UNCHANGED notExec

\* return e.executeExternal(command, args)
TakesExternal == ~TakesBuiltin

\* if fullPath == "" { return "", fmt.Errorf("%s: command not found", command) }
ExecuteNotFound ==
    /\ xPc = "parsed"
    /\ TakesExternal
    /\ FullPath = NotFound
    /\ Return("external", <<>>, CommandNotFound(Command))
    /\ UNCHANGED <<xInput, xParts, xBuf, xTerm, xRuns, xOpens, xFile, xCwd, xLimit>>
    /\ UNCHANGED notExec

\* os.OpenFile(outputFile, flags, 0644) fails: "redirect error: %v"
ExecuteRedirectFail ==
    /\ xPc = "parsed"
    /\ TakesExternal
    /\ FullPath # NotFound
    /\ Redirection.file # <<>>
    /\ xOpens' = Append(xOpens, [file |-> Redirection.file, type |-> Redirection.type,
                                 append |-> IsAppend(Redirection.type), ok |-> FALSE])
    /\ Return("external", <<>>, Errorf(<<"r","e","d","i","r","e","c","t",SP,"e","r","r","o","r",":",SP>> \o OsErrText))
    /\ UNCHANGED <<xInput, xParts, xBuf, xTerm, xRuns, xFile, xCwd, xLimit>>
    /\ UNCHANGED notExec

\* mutant: the failure of the child is returned
ExecuteRedirected_ReportsFailure ==
    /\ xPc = "parsed"
    /\ TakesExternal
    /\ FullPath # NotFound
    /\ Redirection.file # <<>>
    /\ \E run \in ChildRuns :
          LET type == Redirection.type
              opened == IF IsAppend(type) THEN xFile.text ELSE <<>>
              toFile == IF ~run.started THEN <<>>
                        ELSE IF ToStdout(type) THEN run.out
                        ELSE IF ToStderr(type) THEN run.errOut
                        ELSE <<>>
              toTerm == IF ~run.started THEN <<>>
                        ELSE IF ToStdout(type) THEN run.errOut
                        ELSE IF ToStderr(type) THEN run.out
                        ELSE <<>>
          IN  /\ xOpens' = Append(xOpens, [file |-> Redirection.file, type |-> type,
                                           append |-> IsAppend(type), ok |-> TRUE])
              /\ xFile' = [there |-> TRUE, text |-> opened \o toFile]
              /\ xTerm' = xTerm \o toTerm
              /\ xRuns' = Append(xRuns, Child(run))
              /\ IF run.started /\ run.ok
                 THEN Return("external", <<>>, NilErr)
                 ELSE Return("external", <<>>, Errorf(ExitErrText))
    /\ UNCHANGED <<xInput, xParts, xBuf, xCwd, xLimit>>
    /\ UNCHANGED notExec

\* the file is opened (created, and truncated unless appending), the child
\* runs with one stream in the file and the other on the terminal, and
\* whatever cmd.Run reports is dropped: return "", nil
ExecuteRedirected ==
    /\ xPc = "parsed"
    /\ TakesExternal
    /\ FullPath # NotFound
    /\ Redirection.file # <<>>
    /\ \E run \in ChildRuns :
          LET type == Redirection.type
              opened == IF IsAppend(type) THEN xFile.text ELSE <<>>
              toFile == IF ~run.started THEN <<>>
                        ELSE IF ToStdout(type) THEN run.out
                        ELSE IF ToStderr(type) THEN run.errOut
                        ELSE <<>>
              toTerm == IF ~run.started THEN <<>>
                        ELSE IF ToStdout(type) THEN run.errOut
                        ELSE IF ToStderr(type) THEN run.out
                        ELSE <<>>
          IN  /\ xOpens' = Append(xOpens, [file |-> Redirection.file, type |-> type,
                                           append |-> IsAppend(type), ok |-> TRUE])
              /\ xFile' = [there |-> TRUE, text |-> opened \o toFile]
              /\ xTerm' = xTerm \o toTerm
              /\ xRuns' = Append(xRuns, Child(run))
    /\ Return("external", <<>>, NilErr)
    /\ UNCHANGED <<xInput, xParts, xBuf, xCwd, xLimit>>
    /\ UNCHANGED notExec

\* mutant: the captured standard error is not looked at
ExecutePlain_RawFailure ==
    /\ xPc = "parsed"
    /\ TakesExternal
    /\ FullPath # NotFound
    /\ Redirection.file = <<>>
    /\ \E run \in ChildRuns :
          /\ xRuns' = Append(xRuns, Child(run))
          /\ IF ~run.started THEN Return("external", <<>>, Errorf(OsErrText))
             ELSE IF run.ok THEN Return("external", TrimSuffixNL(run.out), NilErr)
             ELSE Return("external", <<>>, Errorf(ExitErrText))
    /\ UNCHANGED <<xInput, xParts, xBuf, xTerm, xOpens, xFile, xCwd, xLimit>>
    /\ UNCHANGED notExec

\* mutant: a child that failed without writing to its standard error is no error
ExecutePlain_SilentExit ==
    /\ xPc = "parsed"
    /\ TakesExternal
    /\ FullPath # NotFound
    /\ Redirection.file = <<>>
    /\ \E run \in ChildRuns :
          /\ xRuns' = Append(xRuns, Child(run))
          /\ IF ~run.started THEN Return("external", <<>>, Errorf(OsErrText))
             ELSE IF run.ok THEN Return("external", TrimSuffixNL(run.out), NilErr)
             ELSE IF run.errOut # <<>> THEN Return("external", <<>>, Errorf(run.errOut))
             ELSE Return("external", <<>>, NilErr)
    /\ UNCHANGED <<xInput, xParts, xBuf, xTerm, xOpens, xFile, xCwd, xLimit>>
    /\ UNCHANGED notExec

\* no redirection: cmd.Output() with the child's standard error in a buffer
ExecutePlain ==
    /\ xPc = "parsed"
    /\ TakesExternal
    /\ FullPath # NotFound
    /\ Redirection.file = <<>>
    /\ \E run \in ChildRuns :
          /\ xRuns' = Append(xRuns, Child(run))
          /\ IF ~run.started THEN Return("external", <<>>, Errorf(OsErrText))
             ELSE IF run.ok THEN Return("external", TrimSuffixNL(run.out), NilErr)
             ELSE IF run.errOut # <<>> THEN Return("external", <<>>, Errorf(run.errOut))
             ELSE Return("external", <<>>, Errorf(ExitErrText))
    /\ UNCHANGED <<xInput, xParts, xBuf, xTerm, xOpens, xFile, xCwd, xLimit>>
    /\ UNCHANGED notExec

\* the lines of a session that runs one installed program again and again
\* with its output redirected to the file f
RerunLines ==
    { Join(<< <<"l","s">>, op, <<"f">> >>, <<SP>>) : op \in RedirOps \ { <<"3",">">> } }

\* the disk of that session: ls is installed in the first directory
RunsDisk == [d \in Dirs |-> [n \in {"ls"} |-> IF d = "/a" THEN Executable ELSE Absent]]

RunsInit ==
    /\ xInput \in RerunLines
    /\ xParts = <<>>
    /\ xPc = "call"
    /\ xVia = "none"
    /\ xOut = <<>>
    /\ xErr = NilErr
    /\ xBuf = [made |-> FALSE, text |-> <<>>, ret |-> NilErr]
    /\ xTerm = <<>>
    /\ xRuns = <<>>
    /\ xOpens = <<>>
    /\ xFile \in {Missing, Existing}
    /\ xCwd = Home
    /\ xLimit = NoLimit
    /\ disk = RunsDisk

\* the lines of a session that changes and prints the working directory
DirLines ==
    { <<"c","d">>, <<"c","d",SP,"~">>, <<"c","d",SP,"/","x">>, <<"c","d",SP,"/","h">>,
      <<"c","d",SP,"7">>, <<"c","d",SP,"/","x",SP,"7">>, <<"p","w","d">> }

DirsInit ==
    /\ xInput \in DirLines
    /\ xParts = <<>>
    /\ xPc = "call"
    /\ xVia = "none"
    /\ xOut = <<>>
    /\ xErr = NilErr
    /\ xBuf = [made |-> FALSE, text |-> <<>>, ret |-> NilErr]
    /\ xTerm = <<>>
    /\ xRuns = <<>>
    /\ xOpens = <<>>
    /\ xFile = Missing
    /\ xCwd \in ExistingDirs
    /\ xLimit = NoLimit
    /\ disk = RunsDisk

\* what the read loop prints when Execute has returned:
\* fmt.Fprintln(os.Stderr, err), else fmt.Println(output) of a non-empty output
Printed(out, e) ==
    IF ~e.nil THEN e.text \o <<NL>>
    ELSE IF Len(out) > 0 THEN out \o <<NL>>
    ELSE <<>>

\* the number of lines on the terminal
NewLines(s) == Cardinality({k \in 1 .. Len(s) : s[k] = NL})

\* the read loop: Execute has returned, its result is printed, the next line
\* is read and handed to Execute; files, processes and the working directory
\* stay as the last call left them
ReplStep(lines) ==
    /\ xPc = "done"
    /\ Len(xOpens) < MaxRuns
    /\ NewLines(xTerm) < MaxPrints
    /\ xTerm' = xTerm \o Printed(xOut, xErr)
    /\ xInput' \in lines
    /\ xParts' = <<>>
    /\ xPc' = "call"
    /\ xVia' = "none"
    /\ xOut' = <<>>
    /\ xErr' = NilErr
    /\ UNCHANGED <<xBuf, xRuns, xOpens, xFile, xCwd, xLimit>>
    /\ UNCHANGED notExec

NextLine == ReplStep(RerunLines)

NextDirLine == ReplStep(DirLines)

\* the steps such a session takes
RunsNext ==
    \/ ExecuteParse
    \/ ExecuteRedirectFail
    \/ ExecuteRedirected
    \/ NextLine

\* the steps of a session of cd and pwd
DirsNext ==
    \/ ExecuteParse
    \/ ExecuteBuiltin
    \/ NextDirLine

ExecNext ==
    \/ ExecutePipe
    \/ ExecuteEmpty
    \/ ExecuteParse
    \/ ExecuteBuiltin
    \/ ExecuteNotFound
    \/ ExecuteRedirectFail
    \/ ExecuteRedirected
    \/ ExecutePlain

----------------------------------------------------------------------------
(* parseRedirection and BuiltinCommands.Execute, called on their own *)

\* the words of an argument list handed to parseRedirection
CallWords == { <<">">>, <<"2",">",">">>, <<"a",">","b">>, <<"f">>, <<"-","l">>, <<>> }

\* the names handed to BuiltinCommands.Execute: the registered ones, a
\* program, and words that differ from a registered name in case, by a
\* trailing space or by everything
CallNames ==
    CmdWords \cup { <<"E","c","h","o">>, <<"e","c","h","o",SP>>, <<"n","o","p","e">>, <<>> }

\* the characters of a line handed to Executor.Execute to see how it is cut
\* into commands
CutChars == {"a", "|", SQ, DQ, BS, SP}

CallInputs(fn) ==
    IF fn = "parseRedirection"
    THEN { [name |-> <<>>, args |-> as] : as \in SeqsUpTo(CallWords, MaxCallArgs) }
    ELSE IF fn = "Executor.Execute"
    THEN { [name |-> <<>>, args |-> <<line>>] : line \in SeqsUpTo(CutChars, MaxLen) }
    ELSE { [name |-> w, args |-> as] :
             w \in CallNames, as \in { <<>>, << <<"f">> >>, << <<"-","l">>, <<"f">> >> } }

NoCall == [kind |-> "none"]

CallIdle ==
    /\ callFn = "none"
    /\ callIn = [name |-> <<>>, args |-> <<>>]
    /\ callPc = "idle"
    /\ callRet = NoCall

CallInit ==
    /\ callFn \in {"parseRedirection", "Execute", "Executor.Execute"}
    /\ callIn \in CallInputs(callFn)
    /\ callPc = "call"
    /\ callRet = NoCall

\* redirectType, outputFile, actualArgs := parseRedirection(args)
CallParseRedirection ==
    /\ callPc = "call"
    /\ callFn = "parseRedirection"
    /\ callRet' = [kind |-> "redirection", ret |-> parseRedirection(callIn.args)]
    /\ callPc' = "done"
    /\ UNCHANGED <<callFn, callIn>>
    /\ UNCHANGED notCall

\* err := builtins.Execute(name, args, os.Stdin, &buf) in the home directory
\* with an empty history; the exit command ends the process
CallBuiltinExecute ==
    /\ callPc = "call"
    /\ callFn = "Execute"
    /\ \E o \in BuiltinExecute(callIn.name, callIn.args, Home, <<>>, NoLimit) :
          callRet' = [kind |-> "outcome", ret |-> o]
    /\ callPc' = "done"
    /\ UNCHANGED <<callFn, callIn>>
    /\ UNCHANGED notCall

\* mutant: the line is cut at its first '|' only
RECURSIVE SplitPipe_FirstBar(_)
SplitPipe_FirstBar(s) ==
    IF ~Contains(s, "|") THEN <<s>>
    ELSE LET k == CHOOSE j \in 1 .. Len(s) :
                    s[j] = "|" /\ \A m \in 1 .. j - 1 : s[m] # "|"
         IN  <<SubSeq(s, 1, k - 1), SubSeq(s, k + 1, Len(s))>>

\* strings.Split(input, "|")
RECURSIVE SplitPipe(_)
SplitPipe(s) ==
    IF ~Contains(s, "|") THEN <<s>>
    ELSE LET k == CHOOSE j \in 1 .. Len(s) :
                    s[j] = "|" /\ \A m \in 1 .. j - 1 : s[m] # "|"
         IN  <<SubSeq(s, 1, k - 1)>> \o SplitPipe(SubSeq(s, k + 1, Len(s)))

\* for _, pc := range pipeCommands {
\*     commands = append(commands, ParseArgs(strings.TrimSpace(pc))) }
PipeCommands(trimmed) ==
    LET pipeCommands == SplitPipe(trimmed)
    IN  [k \in 1 .. Len(pipeCommands) |-> ParseArgs(TrimSpace(pipeCommands[k]))]

\* Executor.Execute(input) up to the words of the command or commands it
\* goes on to run: a line with '|' goes to executePipe, which cuts it into
\* commands; any other line is one command
CallExecute ==
    /\ callPc = "call"
    /\ callFn = "Executor.Execute"
    /\ LET trimmed == TrimSpace(callIn.args[1])
       IN  callRet' = IF Contains(trimmed, "|")
                      THEN [kind |-> "pipeline", ret |-> PipeCommands(trimmed)]
                      ELSE [kind |-> "single", ret |-> <<ParseArgs(trimmed)>>]
    /\ callPc' = "done"
    /\ UNCHANGED <<callFn, callIn>>
    /\ UNCHANGED notCall

CallNext == CallParseRedirection \/ CallBuiltinExecute \/ CallExecute

----------------------------------------------------------------------------
(* Specifications *)

\* one scan of ParseArgs over every enumerated line
ParseSpecInit == ParseInit /\ PipeIdle /\ CompIdle /\ LcpIdle /\ ExecIdle /\ CallIdle /\ EnvIdle

ParseSpec == ParseSpecInit /\ [][ParseNext]_vars

\* the same, where the function keeps running until it returns
ParseLive == ParseSpecInit /\ [][ParseNext]_vars /\ WF_vars(ParseNext)

\* one invocation of executePipe over every enumerated pipeline
PipeSpecInit == PipeInit /\ ParseIdle /\ CompIdle /\ LcpIdle /\ ExecIdle /\ CallIdle /\ EnvIdle

PipeSpec == PipeSpecInit /\ [][PipeNext]_vars

\* one completer, the Tab presses and other keys it is told of
CompSpecInit == CompInit /\ ParseIdle /\ PipeIdle /\ LcpIdle /\ ExecIdle /\ CallIdle /\ EnvIdle

CompSpec == CompSpecInit /\ [][CompNext]_vars

\* one call of longestCommonPrefix over every enumerated candidate list
LcpSpecInit == LcpInit /\ ParseIdle /\ PipeIdle /\ CompIdle /\ ExecIdle /\ CallIdle /\ EnvIdle

LcpSpec == LcpSpecInit /\ [][LcpNext]_vars

\* one call of Execute on every line, disk and working directory
ExecSpecInit == ExecInit /\ ParseIdle /\ PipeIdle /\ CompIdle /\ LcpIdle /\ CallIdle

ExecSpec == ExecSpecInit /\ [][ExecNext]_vars

\* one direct call of parseRedirection or of BuiltinCommands.Execute
CallSpecInit ==
    CallInit /\ ParseIdle /\ PipeIdle /\ CompIdle /\ LcpIdle /\ ExecIdle /\ EnvIdle

CallSpec == CallSpecInit /\ [][CallNext]_vars

\* a session of redirected runs of one installed program
RunsSpecInit == RunsInit /\ ParseIdle /\ PipeIdle /\ CompIdle /\ LcpIdle /\ CallIdle

RunsSpec == RunsSpecInit /\ [][RunsNext]_vars

\* a session of cd and pwd lines
DirsSpecInit == DirsInit /\ ParseIdle /\ PipeIdle /\ CompIdle /\ LcpIdle /\ CallIdle

DirsSpec == DirsSpecInit /\ [][DirsNext]_vars

----------------------------------------------------------------------------
(* Claims about executePipe, checked under PipeSpec *)

StageIx == 0 .. (N - 1)
Name(i) == commands[i + 1]
IsMissingStage(i) == Name(i) # "" /\ ~IsBuiltin(Name(i)) /\ FindExecutable(Name(i)) = NotFound
IsBuiltinStage(i) == Name(i) # "" /\ IsBuiltin(Name(i))
IsExternalStage(i) == Name(i) # "" /\ ~IsBuiltin(Name(i)) /\ FindExecutable(Name(i)) # NotFound
Launched(i) == proc[i].state \in {"run", "exit"}
Returned == pc = "done"
Min(a, b) == IF a < b THEN a ELSE b

\* every line stage i has issued a write for
Emitted(i) == proc[i].sent \o proc[i].lost

\* C1, delivery: what stage i+1 has read plus what the pipe holds is what
\* stage i wrote, in order; when stage i+1 sees end-of-stream it has read all
\* that stage i writes.
C1_Delivery ==
    \A i \in StageIx :
        (i < N - 1 /\ proc[i].stdout.f = "pipe") =>
            /\ proc[i + 1].rd \o buf[proc[i].stdout.p] = Emitted(i)
            /\ proc[i + 1].eof => (proc[i].wq = <<>> /\ proc[i + 1].rd = Emitted(i))

\* C1, ownership: nobody else has closed the stdout of a built-in task that
\* has not returned yet.
C1_Ownership ==
    \A i \in StageIx :
        (IsTask(i) /\ Running(i) /\ proc[i].stdout.f = "pipe") =>
            closedBy[proc[i].stdout] = <<>>

\* C1, the example: emit 1..EmitLines | keep the last TailKeep | count prints
\* the number of lines kept.
C1_Example ==
    (commands = <<"emit", "tail", "count">> /\ proc[2].state = "exit") =>
        termOut = <<Min(EmitLines, TailKeep)>>

\* C1: in every pipeline and interleaving, all that a non-final stage writes
\* reaches the next stage in order and complete before that stage sees
\* end-of-stream, and no other party closes a stream of a built-in task that
\* may still write to it.
C1_OrderedLosslessDelivery == C1_Delivery /\ C1_Ownership /\ C1_Example

\* C2: every pipe end this invocation created is closed at most once at any
\* time, and exactly once when executePipe has returned, on every return path.
C2_ClosedExactlyOnce ==
    \A h \in PipeEnds :
        Created(h) =>
            /\ Len(closedBy[h]) <= 1
            /\ Returned => Len(closedBy[h]) = 1

\* C3: a pipeline of programs that all terminate runs to completion:
\* executePipe is never left with no step of the orchestrator, of a task or
\* of a child to take before it has returned.
C3_RunsToCompletion == Returned \/ ENABLED PipeNext

InCmds(i) == \E k \in 1 .. Len(cmds) : cmds[k] = i

\* C4: never more than N-1 pipes, exactly N-1 once the creation loop is
\* through, and every stage that was set up has the terminal as stdin iff it
\* is the first segment, else the read end of pipe i-1, and the terminal as
\* stdout iff it is the last segment, else the write end of pipe i, by its
\* segment position whatever was skipped before it.
C4_Wiring ==
    /\ NPipes <= N - 1
    /\ (pc # "create" /\ err # "pipe") => NPipes = N - 1
    /\ \A i \in Stages :
        proc[i].kind # "none" =>
            /\ i < N
            /\ proc[i].stdin = (IF i = 0 THEN OsStdin ELSE ReadEnd(i - 1))
            /\ proc[i].stdout = (IF i = N - 1 THEN OsStdout ELSE WriteEnd(i))

\* a built-in first stage and an external last stage around a skipped one
C4_Witness ==
    /\ commands = <<"echo", "nosuch", "count">>
    /\ IsTask(0) /\ proc[0].stdout = WriteEnd(0)
    /\ IsChild(2) /\ Running(2) /\ proc[2].stdin = ReadEnd(1)

C6_PipeFailureAborts ==
    err = "pipe" =>
        /\ Returned
        /\ NPipes < N - 1
        /\ cmds = <<>>
        /\ \A i \in Stages : proc[i] = NoProc

\* the second of two pipe creations failed
C6_Witness == Returned /\ err = "pipe" /\ NPipes = 1 /\ N = 3

----------------------------------------------------------------------------
(* Claims about ParseArgs, checked under ParseSpec *)

IsWs(c) == c = SP \/ c = TAB
IsPlain(line) == \A k \in 1 .. Len(line) : line[k] \notin {SQ, DQ, BS}
Scanned == ppc = "done"
\* the loop is about to process the character Cur
Scanning == ppc = "scan" /\ pos <= Len(input)
Cur == input[pos]

\* length of the longest prefix of s without whitespace
WordEnd(s) ==
    IF \E j \in 1 .. Len(s) : IsWs(s[j])
    THEN (CHOOSE j \in 1 .. Len(s) : IsWs(s[j]) /\ \A m \in 1 .. (j - 1) : ~IsWs(s[m])) - 1
    ELSE Len(s)

\* the maximal whitespace-free runs of s, in order
RECURSIVE Words(_)
Words(s) ==
    IF s = <<>> THEN <<>>
    ELSE IF IsWs(Head(s)) THEN Words(Tail(s))
    ELSE <<SubSeq(s, 1, WordEnd(s))>> \o Words(SubSeq(s, WordEnd(s) + 1, Len(s)))

\* the words joined by single spaces
RECURSIVE JoinSp(_)
JoinSp(ws) ==
    IF ws = <<>> THEN <<>>
    ELSE IF Len(ws) = 1 THEN ws[1]
    ELSE ws[1] \o <<SP>> \o JoinSp(Tail(ws))

\* words separated by exactly one space each, nothing before or after
SingleSpaced(line) ==
    /\ line # <<>>
    /\ \A k \in 1 .. Len(line) : line[k] # TAB
    /\ line[1] # SP /\ line[Len(line)] # SP
    /\ \A k \in 1 .. (Len(line) - 1) : ~(line[k] = SP /\ line[k + 1] = SP)

\* C7: plain words joined by single spaces come back as exactly that
\* sequence; longer runs of spaces and tabs and leading or trailing
\* whitespace change nothing; and no input yields an empty argument.
C7_PlainWordsRoundTrip ==
    Scanned =>
        /\ \A k \in 1 .. Len(result) : result[k] # <<>>
        /\ IsPlain(input) => result = Words(input)
        /\ (IsPlain(input) /\ SingleSpaced(input)) =>
              /\ JoinSp(result) = input
              /\ \A k \in 1 .. Len(result) : \A m \in 1 .. Len(result[k]) : ~IsWs(result[k][m])

\* leading whitespace and a run of tab and space between two words
C7_Witness ==
    /\ Scanned
    /\ input = <<SP, "a", TAB, SP, "a">>
    /\ result = << <<"a">>, <<"a">> >>

\* s with the characters ins inserted after its first k characters
InsertAt(s, k, ins) == SubSeq(s, 1, k) \o ins \o SubSeq(s, k + 1, Len(s))

\* after k characters the scan is outside any quote and no escape is pending
NeutralAt(line, k) ==
    LET s == ScanTo(line, k) IN ~s.inSingle /\ ~s.inDouble /\ ~s.escaped

\* the character opens or closes a quote
QuoteMark(s, c) == ~s.escaped /\ ((c = SQ /\ ~s.inDouble) \/ (c = DQ /\ ~s.inSingle))

C8_QuoteStep ==
    (Scanning /\ QuoteMark(st, Cur)) => (st'.curr = st.curr /\ st'.args = st.args)

C8_Results ==
    Scanned =>
        /\ input = <<SQ,"a",SQ,SQ,"b",SQ,"c",SQ,SQ,"d",SQ,SQ,"e",SQ,"f">> =>
              result = << <<"a","b","c","d","e","f">> >>
        /\ input = <<"e","c","h","o",SP,"f","o","o",SQ,SQ,"b","a","r">> =>
              result = << <<"e","c","h","o">>, <<"f","o","o","b","a","r">> >>
        /\ \A k \in 0 .. Len(input) :
              NeutralAt(input, k) =>
                  /\ ParseArgs(InsertAt(input, k, <<SQ, SQ>>)) = result
                  /\ ParseArgs(InsertAt(input, k, <<DQ, DQ>>)) = result

\* C8: opening or closing a quote adds no character and ends no argument, so
\* adjacent quoted and unquoted fragments make one argument and an empty quote
\* pair anywhere outside quotes changes nothing.
C8_QuotesJoinFragments == []C8_Results /\ [][C8_QuoteStep]_vars

\* quoted and unquoted fragments and empty pairs make one argument
C8_Witness ==
    /\ Scanned
    /\ input = <<SQ,"a",SQ,SQ,"b",SQ,"c",SQ,SQ,"d",SQ,SQ,"e",SQ,"f">>
    /\ result = << <<"a","b","c","d","e","f">> >>

\* a double-quoted body: no bare double quote, no backslash at its end
RECURSIVE DQClosed(_)
DQClosed(b) ==
    IF b = <<>> THEN TRUE
    ELSE IF Head(b) = BS THEN Len(b) >= 2 /\ DQClosed(SubSeq(b, 3, Len(b)))
    ELSE Head(b) # DQ /\ DQClosed(Tail(b))

\* what a double-quoted body stands for
RECURSIVE DQDecode(_)
DQDecode(b) ==
    IF b = <<>> THEN <<>>
    ELSE IF Head(b) = BS
         THEN (IF b[2] = BS \/ b[2] = DQ THEN <<b[2]>> ELSE <<BS, b[2]>>)
              \o DQDecode(SubSeq(b, 3, Len(b)))
    ELSE <<Head(b)>> \o DQDecode(Tail(b))

Body(line) == SubSeq(line, 2, Len(line) - 1)

C9_DoubleQuoteStep ==
    (Scanning /\ st.inDouble) =>
        /\ st.escaped =>
              /\ st'.curr = st.curr \o (IF Cur = BS \/ Cur = DQ THEN <<Cur>> ELSE <<BS, Cur>>)
              /\ st'.args = st.args /\ st'.inDouble /\ ~st'.escaped
        /\ (~st.escaped /\ Cur = BS) =>
              st'.curr = st.curr /\ st'.args = st.args /\ st'.escaped
        /\ (~st.escaped /\ IsWs(Cur)) =>
              st'.curr = Append(st.curr, Cur) /\ st'.args = st.args /\ st'.inDouble

C9_Results ==
    Scanned =>
        /\ input = <<"e","c","h","o",SP,DQ,"A",SP,BS,SP,"e","s","c","a","p","e","s",SP,
                     "i","t","s","e","l","f",DQ>> =>
              result = << <<"e","c","h","o">>,
                          <<"A",SP,BS,SP,"e","s","c","a","p","e","s",SP,
                            "i","t","s","e","l","f">> >>
        /\ (Len(input) >= 2 /\ input[1] = DQ /\ input[Len(input)] = DQ
              /\ DQClosed(Body(input))) =>
              result = (IF DQDecode(Body(input)) = <<>> THEN <<>>
                        ELSE << DQDecode(Body(input)) >>)

\* C9: inside double quotes a backslash before a backslash or a double quote
\* yields that character alone, before anything else it stays together with
\* that character, and whitespace does not split the argument.
C9_DoubleQuoteEscapes == []C9_Results /\ [][C9_DoubleQuoteStep]_vars

\* a backslash before a letter and a space inside double quotes
C9_Witness ==
    /\ Scanned
    /\ input = <<DQ, BS, "a", SP, DQ>>
    /\ result = << <<BS, "a", SP>> >>

C10_SingleQuoteStep ==
    (Scanning /\ st.inSingle) =>
        /\ ~st.escaped
        /\ Cur # SQ =>
              /\ st'.curr = Append(st.curr, Cur) /\ st'.args = st.args
              /\ st'.inSingle /\ ~st'.escaped /\ ~st'.inDouble
        /\ Cur = SQ =>
              st'.curr = st.curr /\ st'.args = st.args /\ ~st'.inSingle

C10_Results ==
    (Scanned /\ Len(input) >= 2 /\ input[1] = SQ /\ input[Len(input)] = SQ
        /\ \A k \in 1 .. Len(Body(input)) : Body(input)[k] # SQ) =>
        result = (IF Body(input) = <<>> THEN <<>> ELSE << Body(input) >>)

\* C10: inside single quotes every character but the closing single quote is
\* copied unchanged into the current argument: backslash, double quote, space
\* and tab; no escape is processed.
C10_SingleQuoteLiteral == []C10_Results /\ [][C10_SingleQuoteStep]_vars

\* backslash, double quote and space between single quotes
C10_Witness ==
    /\ Scanned
    /\ input = <<SQ, BS, DQ, SP, SQ>>
    /\ result = << <<BS, DQ, SP>> >>

\* the characters of a line without quotes, each escaped one marked literal; a
\* backslash at the very end escapes nothing
RECURSIVE Unescape(_)
Unescape(s) ==
    IF s = <<>> THEN <<>>
    ELSE IF Head(s) = BS
         THEN IF Len(s) >= 2
              THEN <<[ch |-> s[2], lit |-> TRUE]>> \o Unescape(SubSeq(s, 3, Len(s)))
              ELSE <<>>
    ELSE <<[ch |-> Head(s), lit |-> FALSE]>> \o Unescape(Tail(s))

IsSep(t) == ~t.lit /\ IsWs(t.ch)
IsBareQuote(t) == ~t.lit /\ (t.ch = SQ \/ t.ch = DQ)

\* the arguments made of marked characters: split at unescaped whitespace
RECURSIVE SplitToks(_, _)
SplitToks(ts, cur) ==
    IF ts = <<>> THEN (IF cur = <<>> THEN <<>> ELSE <<cur>>)
    ELSE IF IsSep(Head(ts))
         THEN (IF cur = <<>> THEN <<>> ELSE <<cur>>) \o SplitToks(Tail(ts), <<>>)
    ELSE SplitToks(Tail(ts), Append(cur, Head(ts).ch))

\* the line opens no quote: every quote character in it is escaped
NoBareQuote(line) ==
    \A k \in 1 .. Len(Unescape(line)) : ~IsBareQuote(Unescape(line)[k])

C11_EscapeStep ==
    (Scanning /\ ~st.inSingle /\ ~st.inDouble) =>
        /\ (~st.escaped /\ Cur = BS) => st' = [st EXCEPT !.escaped = TRUE]
        /\ st.escaped => st' = [st EXCEPT !.curr = Append(st.curr, Cur), !.escaped = FALSE]

C11_Results ==
    Scanned =>
        /\ input = <<"w","o","r","l","d",BS,SP,BS,SP,"s","c","r","i","p","t">> =>
              result = << <<"w","o","r","l","d",SP,SP,"s","c","r","i","p","t">> >>
        /\ input = <<"e","c","h","o",SP,"t","e","s","t",BS,"n","e","x","a","m","p","l","e">> =>
              result = << <<"e","c","h","o">>,
                          <<"t","e","s","t","n","e","x","a","m","p","l","e">> >>
        /\ NoBareQuote(input) => result = SplitToks(Unescape(input), <<>>)

\* C11: outside any quote a backslash is dropped and the character after it
\* is appended to the current argument whatever it is: an escaped space or
\* tab does not split the argument and an escaped quote opens no quote.
C11_EscapeOutsideQuotes == []C11_Results /\ [][C11_EscapeStep]_vars

\* an escaped space and an escaped single quote inside one argument
C11_Witness ==
    /\ Scanned
    /\ input = <<"a", BS, SP, BS, SQ>>
    /\ result = << <<"a", SP, SQ>> >>

\* no double quote in b that a backslash does not escape
RECURSIVE NoBareDQ(_)
NoBareDQ(b) ==
    IF b = <<>> THEN TRUE
    ELSE IF Head(b) = BS THEN NoBareDQ(SubSeq(b, 3, Len(b)))
    ELSE Head(b) # DQ /\ NoBareDQ(Tail(b))

\* what a double-quoted body that is never closed stands for
RECURSIVE DQDecodeOpen(_)
DQDecodeOpen(b) ==
    IF b = <<>> THEN <<>>
    ELSE IF Head(b) = BS
         THEN IF Len(b) >= 2
              THEN (IF b[2] = BS \/ b[2] = DQ THEN <<b[2]>> ELSE <<BS, b[2]>>)
                   \o DQDecodeOpen(SubSeq(b, 3, Len(b)))
              ELSE <<>>
    ELSE <<Head(b)>> \o DQDecodeOpen(Tail(b))

Rest(line, k) == SubSeq(line, k + 1, Len(line))
OneArg(a) == IF a = <<>> THEN <<>> ELSE <<a>>

\* the function is at its return statement
AtReturn == ppc = "scan" /\ pos > Len(input)

C12_ReturnStep ==
    /\ Scanning => (ppc' = "scan" /\ pos' = pos + 1)
    /\ AtReturn => (ppc' = "done" /\ result' = st.args \o OneArg(st.curr))

C12_Results ==
    /\ ppc \in {"scan", "done"}
    /\ pos \in 1 .. (Len(input) + 1)
    /\ Scanned =>
        \A k \in 1 .. Len(input) :
            NeutralAt(input, k - 1) =>
                /\ (input[k] = SQ /\ \A m \in (k + 1) .. Len(input) : input[m] # SQ) =>
                      result = ScanTo(input, k - 1).args
                               \o OneArg(ScanTo(input, k - 1).curr \o Rest(input, k))
                /\ (input[k] = DQ /\ NoBareDQ(Rest(input, k))) =>
                      result = ScanTo(input, k - 1).args
                               \o OneArg(ScanTo(input, k - 1).curr
                                         \o DQDecodeOpen(Rest(input, k)))

\* C12: ParseArgs always comes to its return and has no error to report: at
\* the end of the input a pending non-empty argument is emitted, and a single
\* or double quote that is never closed makes the rest of the line part of
\* the current argument.
C12_AlwaysReturns == <>Scanned /\ []C12_Results /\ [][C12_ReturnStep]_vars

\* a single quote that is never closed after a finished argument
C12_Witness ==
    /\ Scanned
    /\ input = <<"a", SP, SQ, "a", SP>>
    /\ result = << <<"a">>, <<"a", SP>> >>

----------------------------------------------------------------------------
(* Claims about BellWrapper, checked under CompSpec *)

\* the distinct candidates among those the inner completer returned
DistinctRaw == {rawMatches[k] : k \in 1 .. Len(rawMatches)}

IsPrefixOf(q, s) == Len(q) <= Len(s) /\ SubSeq(s, 1, Len(q)) = q

\* the strings that are a prefix of every string of S
SharedPrefixes(S) ==
    {q \in UNION {{SubSeq(x, 1, m) : m \in 0 .. Len(x)} : x \in S} :
        \A x \in S : IsPrefixOf(q, x)}

\* the longest of them (S is not empty)
LongestShared(S) ==
    CHOOSE q \in SharedPrefixes(S) : \A r \in SharedPrefixes(S) : Len(r) <= Len(q)

\* the strings of S in strictly increasing order
Increasing(S) ==
    CHOOSE s \in [1 .. Cardinality(S) -> S] :
        \A j, k \in 1 .. Cardinality(S) : j < k => StrLess(s[j], s[k])

\* this step is a call of Do
DoStep == innerSet /\ Len(presses') = Len(presses) + 1

Many == Cardinality(DistinctRaw) >= 2

\* the typed partial word, read off the line
Partial == SubSeq(curLine, rawOffset + 1, curPos)

Listed(o) == o.refresh /\ Len(o.listed) >= 2 /\ ~o.bell
Belled(o) == o.bell /\ o.listed = <<>> /\ o.text = <<>> /\ ~o.refresh

C13_PressStep ==
    /\ (DoStep /\ Many) =>
        /\ (tabPress /\ (LongestShared(DistinctRaw) = <<>>
                         \/ Partial = LongestShared(DistinctRaw))) =>
              /\ Listed(doOut')
              /\ ~tabPress'
              /\ doRet'.cands = <<>> /\ doRet'.off = 0
        /\ (~tabPress /\ LongestShared(DistinctRaw) = <<>>) =>
              /\ Belled(doOut')
              /\ tabPress'
              /\ doRet'.cands = <<>> /\ doRet'.off = 0
              /\ curLine' = curLine /\ curPos' = curPos
    /\ (DoStep /\ doOut'.listed # <<>>) => tabPress

C13_Presses ==
    (innerSet /\ Many /\ LongestShared(DistinctRaw) = <<>>) =>
        /\ \A k \in 1 .. Len(presses) :
              /\ presses[k].did = (IF presses[k].armed THEN "list" ELSE "bell")
              /\ k < Len(presses) => presses[k].did # presses[k + 1].did
        /\ (presses # <<>> /\ ~presses[1].armed) =>
              presses = SubSeq(<< [armed |-> FALSE, did |-> "bell"],
                                  [armed |-> TRUE, did |-> "list"],
                                  [armed |-> FALSE, did |-> "bell"],
                                  [armed |-> TRUE, did |-> "list"],
                                  [armed |-> FALSE, did |-> "bell"],
                                  [armed |-> TRUE, did |-> "list"] >>, 1, Len(presses))

\* C13: with two or more distinct matches, a press that finds the turn-state
\* armed and the common prefix empty or equal to the typed partial word prints
\* the listing, refreshes, disarms and inserts nothing; a press that finds it
\* not armed and the common prefix empty rings the bell, arms and leaves the
\* input alone.  No press that found the turn-state not armed prints a
\* listing, and consecutive presses on an unchanged line with an empty common
\* prefix alternate bell, listing, bell, listing.
C13_TwoPressProtocol == []C13_Presses /\ [][C13_PressStep]_vars

\* four presses in a row on candidates with nothing in common
C13_Witness ==
    /\ rawMatches = << <<"e">>, <<"c">> >>
    /\ Len(presses) = 4
    /\ presses[1].did = "bell" /\ presses[2].did = "list"
    /\ presses[3].did = "bell" /\ presses[4].did = "list"
    /\ Listed(doOut)

C14_FirstPressStep ==
    (DoStep /\ Many /\ LongestShared(DistinctRaw) # <<>>
        /\ ~(tabPress /\ Partial = LongestShared(DistinctRaw))) =>
        /\ doRet'.cands = << LongestShared(DistinctRaw) >>
        /\ doRet'.off = rawOffset
        /\ tabPress'
        /\ doOut' = Silent

C14_Example ==
    (doRet.fn = "Do" /\ rawMatches = << <<"e","c","h","o">>, <<"e","x","i","t">> >>
        /\ curLine = <<"e","c">> /\ rawOffset = 0 /\ presses[Len(presses)].did = "insert") =>
        doRet.cands = << <<"e">> >> /\ doRet.off = 0 /\ tabPress

C15_FewStep ==
    DoStep =>
        /\ Cardinality(DistinctRaw) = 0 =>
              /\ Belled(doOut')
              /\ doRet'.cands = <<>> /\ doRet'.off = 0
              /\ tabPress' = tabPress
        /\ Cardinality(DistinctRaw) = 1 =>
              /\ doRet'.cands = << rawMatches[1] >>
              /\ doRet'.off = rawOffset
              /\ doOut' = Silent
              /\ tabPress' = tabPress

\* C15: with no match Do rings the bell and returns no insertion; with one
\* distinct match, also when the raw matches are several equal ones, it
\* returns that match with the inner offset and rings no bell; the
\* turn-state stays as it was in both cases.
C15_ZeroOrOneMatch == [][C15_FewStep]_vars

\* an armed completer is pressed on a line with three equal candidates
C15_Witness ==
    /\ doRet.fn = "Do"
    /\ rawMatches = << <<"e">>, <<"e">>, <<"e">> >>
    /\ presses # <<>> /\ presses[Len(presses)].armed
    /\ tabPress
    /\ doRet.cands = << <<"e">> >>

\* this step is a call of OnChange
OnChangeStep == doRet'.fn = "OnChange"

C16_KeyStep ==
    /\ OnChangeStep =>
        /\ tabPress' = (IF doRet'.key = TAB THEN tabPress ELSE FALSE)
        /\ ~doRet'.ok /\ doRet'.cands = <<>> /\ doRet'.off = 0
        /\ curLine' = curLine /\ curPos' = curPos
        /\ doOut' = Silent
    /\ (DoStep /\ doRet.fn = "OnChange" /\ doRet.key # TAB) =>
        /\ ~tabPress
        /\ doOut'.listed = <<>> /\ ~doOut'.refresh

C16_AfterKey ==
    (doRet.fn = "OnChange" /\ doRet.key # TAB) => ~tabPress

\* C16: OnChange disarms the turn-state for every key but Tab, leaves it as
\* it is for Tab, and changes neither line nor cursor (ok is false); the
\* press after a key other than Tab is a first press.
C16_OnChangeResets == []C16_AfterKey /\ [][C16_KeyStep]_vars

\* an armed completer was told of a Tab key and is still armed
C16_Witness ==
    /\ doRet.fn = "OnChange" /\ doRet.key = TAB
    /\ tabPress
    /\ presses # <<>>

\* Do has returned and its result and output are on record
DoReturned == innerSet /\ doRet.fn = "Do"

LastPress == presses[Len(presses)]

\* the zero/one/many decision goes by the number of distinct matches
C18_Decision ==
    DoReturned =>
        /\ Cardinality(DistinctRaw) = 0 =>
              LastPress.did = "bell" /\ doRet.cands = <<>>
        /\ Cardinality(DistinctRaw) = 1 =>
              LastPress.did = "insert" /\ doRet.cands = << rawMatches[1] >>
        /\ Cardinality(DistinctRaw) >= 2 =>
              \/ LastPress.did = "list" /\ Len(doOut.listed) = Cardinality(DistinctRaw)
              \/ LastPress.did = "bell" /\ LongestShared(DistinctRaw) = <<>>
              \/ LastPress.did = "insert" /\ doRet.cands = << LongestShared(DistinctRaw) >>

\* C18 as stated: the decision counts distinct matches, and the listing is
\* the distinct raw matches themselves, each once, in strictly increasing
\* order (each after the text before the partial word).
C18_ListingIsRawMatches ==
    /\ C18_Decision
    /\ (DoReturned /\ doOut.refresh) =>
          doOut.listed = [k \in 1 .. Cardinality(DistinctRaw) |->
                             SubSeq(curLine, 1, rawOffset) \o Increasing(DistinctRaw)[k]]

\* C18 as amended: the decision counts distinct matches, and the listing has
\* one entry per distinct raw match, in the strictly increasing order of the
\* raw matches, each entry being the text before the partial word followed by
\* the match with leading and trailing white space removed; the text printed
\* is the entries joined by two spaces between two newlines.
C18_DedupSortedListing ==
    /\ C18_Decision
    /\ (DoReturned /\ doOut.refresh) =>
          /\ doOut.listed = [k \in 1 .. Cardinality(DistinctRaw) |->
                                SubSeq(curLine, 1, rawOffset)
                                \o TrimSpace(Increasing(DistinctRaw)[k])]
          /\ doOut.text = <<NL>> \o JoinTwoSp(doOut.listed) \o <<NL>>

\* three raw matches, two of them equal, listed in order behind the prefix
C18_Witness ==
    /\ DoReturned /\ doOut.refresh
    /\ rawMatches = << <<"e","x","i","t">>, <<"c">>, <<"e","x","i","t">> >>
    /\ curLine = <<"c", SP, "e">> /\ rawOffset = 2
    /\ doOut.listed = << <<"c", SP, "c">>, <<"c", SP, "e","x","i","t">> >>

----------------------------------------------------------------------------
(* Claims about longestCommonPrefix, checked under LcpSpec *)

LcpDone == lcpPc = "done"

\* the candidates as a set
LcpSet == {lcpItems[k] : k \in 1 .. Len(lcpItems)}

\* C17: for a non-empty candidate list the returned length is the length of
\* the returned string, the string is a prefix of every candidate and no
\* longer string is (candidates that first differ at position k give length
\* k); it is never longer than the shortest candidate; for one candidate it is
\* that candidate, for no candidate the empty string; echo and exit give "e".
C17_LongestCommonPrefix ==
    LcpDone =>
        /\ lcpRet.n = Len(lcpRet.p)
        /\ lcpItems = <<>> => lcpRet.p = <<>>
        /\ Len(lcpItems) = 1 => lcpRet.p = lcpItems[1]
        /\ lcpItems # <<>> =>
              /\ \A x \in LcpSet : IsPrefixOf(lcpRet.p, x) /\ lcpRet.n <= Len(x)
              /\ \A q \in SharedPrefixes(LcpSet) : Len(q) <= lcpRet.n
              /\ \A k \in 0 .. lcpRet.n :
                    (/\ \A x \in LcpSet : Len(x) > k
                     /\ \E x, y \in LcpSet : x[k + 1] # y[k + 1]
                     /\ \A x, y \in LcpSet : SubSeq(x, 1, k) = SubSeq(y, 1, k)) =>
                        lcpRet.n = k
        /\ lcpItems = << <<"e","c","h","o">>, <<"e","x","i","t">> >> =>
              lcpRet = [p |-> <<"e">>, n |-> 1]

\* three candidates of which the last shares nothing with the first two
C17_Witness ==
    /\ LcpDone
    /\ lcpItems = << <<"e","c","h","o">>, <<"e">>, <<"c">> >>
    /\ lcpRet = [p |-> <<>>, n |-> 0]

----------------------------------------------------------------------------
(* Claims about Executor.Execute, checked under ExecSpec *)

\* the words of the line Execute was given
LineParts == ParseArgs(TrimSpace(xInput))

\* a step of the call that began with the words parsed
FromParsed == xPc = "parsed" /\ vars' # vars

\* r is s with exactly one trailing newline removed, if s has one
OneNewlineRemoved(s, r) ==
    IF s # <<>> /\ s[Len(s)] = NL THEN s = Append(r, NL) ELSE r = s

\* a line without '|' and without '>' whose command is a built-in
PlainBuiltinLine ==
    /\ \A k \in 1 .. Len(xInput) : xInput[k] # "|" /\ xInput[k] # ">"
    /\ LineParts # <<>>
    /\ NameOf(LineParts[1]) \in {"echo", "type", "pwd", "cd", "exit", "history"}

\* words joined by single spaces
RECURSIVE SpaceJoined(_)
SpaceJoined(ws) ==
    IF ws = <<>> THEN <<>>
    ELSE IF Len(ws) = 1 THEN ws[1]
    ELSE SpaceJoined(SubSeq(ws, 1, Len(ws) - 1)) \o <<SP>> \o ws[Len(ws)]

\* C19 (step): on a line without '|' and without '>' whose command is a
\* built-in, the step after parsing hands the built-in a buffer as its
\* stdout and launches nothing; if Execute returns, it returns either the
\* buffer's content with exactly one trailing newline removed and no error,
\* or the error and the empty string; echo writes its arguments joined by
\* single spaces and one newline.
C19_BuiltinStep ==
    (FromParsed /\ PlainBuiltinLine) =>
        /\ xVia' = "builtin"
        /\ xBuf'.made
        /\ xRuns' = <<>> /\ xOpens' = <<>>
        /\ xPc' \in {"done", "exit"}
        /\ xPc' = "exit" => NameOf(LineParts[1]) = "exit"
        /\ xPc' = "done" =>
              \/ xBuf'.ret.nil /\ xErr' = NilErr /\ OneNewlineRemoved(xBuf'.text, xOut')
              \/ ~xBuf'.ret.nil /\ xErr' = xBuf'.ret /\ xOut' = <<>>
        /\ NameOf(LineParts[1]) = "echo" =>
              /\ xBuf'.text = SpaceJoined(Tail(LineParts)) \o <<NL>>
              /\ xErr' = NilErr

\* C19 (examples): "echo Hello World" returns "Hello World" and "echo"
\* returns the empty string.
C19_Examples ==
    xPc = "done" =>
        /\ xInput = <<"e","c","h","o",SP,"H","e","l","l","o",SP,"W","o","r","l","d">>
              => xOut = <<"H","e","l","l","o",SP,"W","o","r","l","d">> /\ xErr = NilErr
        /\ xInput = <<"e","c","h","o">> => xOut = <<>> /\ xErr = NilErr

\* C19: Execute of a built-in on a line without '|' and '>' invokes it with
\* an in-memory buffer as stdout and returns the buffer's content with
\* exactly one trailing newline removed, or the built-in's error with empty
\* output.
C19_BuiltinReturnsBuffer == []C19_Examples /\ [][C19_BuiltinStep]_vars

\* echo 'a<newline>' has returned "a<newline>": of the two newlines in the
\* buffer one was removed
C19_Witness ==
    /\ xPc = "done"
    /\ xVia = "builtin"
    /\ xBuf = [made |-> TRUE, text |-> <<"a", NL, NL>>, ret |-> NilErr]
    /\ xOut = <<"a", NL>>
    /\ xErr = NilErr

\* no directory of the search path holds a regular file of that name with
\* an execute bit
NoCandidate(name) ==
    \A d \in DOMAIN disk :
        name \in DOMAIN disk[d] =>
            ~(disk[d][name].kind = "regular" /\ disk[d][name].perm # {})

\* a line without '|' whose command is no built-in and has no candidate
MissingCommandLine ==
    /\ \A k \in 1 .. Len(xInput) : xInput[k] # "|"
    /\ LineParts # <<>>
    /\ NameOf(LineParts[1]) \notin {"echo", "type", "pwd", "cd", "exit", "history"}
    /\ NoCandidate(NameOf(LineParts[1]))

\* C20 (lookup): a name without a candidate in any directory is not found.
C20_Lookup ==
    \A n \in KnownNames \cup {"?"} : NoCandidate(n) => FindExecutable(n) = NotFound

\* C20 (step): the step after parsing such a line returns the error
\* "<name>: command not found" and the empty string, launches no process
\* and opens no file.
C20_MissingStep ==
    (FromParsed /\ MissingCommandLine) =>
        /\ xPc' = "done"
        /\ xErr' = [nil |-> FALSE,
                    text |-> LineParts[1] \o <<":",SP,"c","o","m","m","a","n","d",SP,
                                                "n","o","t",SP,"f","o","u","n","d">>]
        /\ xOut' = <<>>
        /\ xRuns' = <<>>
        /\ xOpens' = <<>>
        /\ xFile' = xFile
        /\ xTerm' = <<>>

\* C20: for a name that is no built-in and has no acceptable candidate on
\* the search path, FindExecutable reports not-found and Execute returns
\* the error "<name>: command not found" with empty output, launching no
\* process and opening no redirection target.
C20_CommandNotFound == []C20_Lookup /\ [][C20_MissingStep]_vars

\* "ls > f" was run where ls is a file without execute bits in /a and a
\* directory in /b, and f exists: not found, nothing launched, f untouched
C20_Witness ==
    /\ xPc = "done"
    /\ xInput = <<"l","s",SP,">",SP,"f">>
    /\ disk["/a"]["ls"] = PlainFile
    /\ disk["/b"]["ls"] = Directory
    /\ xFile = Existing
    /\ ~xErr.nil
    /\ xRuns = <<>>
    /\ xOpens = <<>>

\* the six names of the command table
SixBuiltins == {"echo", "type", "pwd", "cd", "exit", "history"}

\* a line without '|' that Execute hands to executeExternal, whose command
\* has a candidate on the search path
ResolvedExternalLine ==
    /\ \A k \in 1 .. Len(xInput) : xInput[k] # "|"
    /\ LineParts # <<>>
    /\ \/ NameOf(LineParts[1]) \notin SixBuiltins
       \/ \E k \in 1 .. Len(xInput) : xInput[k] = ">"
    /\ ~NoCandidate(NameOf(LineParts[1]))

\* the words after the command
LineArgs == Tail(LineParts)

\* the last two words are an operator holding '>' and a target path
HasRedirection ==
    /\ Len(LineArgs) >= 2
    /\ \E k \in 1 .. Len(LineArgs[Len(LineArgs) - 1]) : LineArgs[Len(LineArgs) - 1][k] = ">"
    /\ LineArgs[Len(LineArgs)] # <<>>

\* the child the step launched
NewChild == xRuns'[Len(xRuns')]

\* the texts of the raw failures: the child could not be started, or it
\* exited with a status other than zero
RawStartFailure == <<"E","I","O">>
RawExitFailure == <<"e","x","i","t",SP,"s","t","a","t","u","s",SP,"1">>

\* C21 (step): a resolved external command without redirection launches one
\* child; if the child succeeds Execute returns its standard output with
\* exactly one trailing newline removed and no error; if it fails Execute
\* returns the empty string and an error whose text is the captured standard
\* error when that is not empty, and the raw failure otherwise.
C21_PlainStep ==
    (FromParsed /\ ResolvedExternalLine /\ ~HasRedirection) =>
        /\ xPc' = "done"
        /\ Len(xRuns') = Len(xRuns) + 1
        /\ xOpens' = xOpens
        /\ IF NewChild.started /\ NewChild.ok
           THEN /\ xErr' = NilErr
                /\ OneNewlineRemoved(NewChild.out, xOut')
           ELSE /\ xOut' = <<>>
                /\ ~xErr'.nil
                /\ NewChild.errOut # <<>> => xErr'.text = NewChild.errOut
                /\ NewChild.errOut = <<>> =>
                      xErr'.text = IF NewChild.started THEN RawExitFailure
                                   ELSE RawStartFailure

\* C21: for a non-redirected external command Execute returns the child's
\* standard output less one trailing newline on success, and on failure the
\* captured standard error as the error, or the raw failure if there is none.
C21_PlainExternal == [][C21_PlainStep]_vars

\* "ls Hello" ran, the child wrote to its standard error and failed: the
\* error is what it wrote
C21_Witness ==
    /\ xPc = "done"
    /\ xInput = <<"l","s",SP,"H","e","l","l","o">>
    /\ xRuns # <<>>
    /\ xRuns[1].started /\ ~xRuns[1].ok
    /\ xRuns[1].out = <<"x", NL>>
    /\ xRuns[1].errOut = <<"E", NL>>
    /\ xErr = [nil |-> FALSE, text |-> <<"E", NL>>]
    /\ xOut = <<>>

\* the step launched a child that exited non-zero with nothing on its
\* standard error
SilentFailure ==
    /\ FromParsed /\ ResolvedExternalLine /\ ~HasRedirection
    /\ Len(xRuns') = Len(xRuns) + 1
    /\ NewChild.started /\ ~NewChild.ok /\ NewChild.errOut = <<>>

\* C22 as stated: for a non-redirected external command whose child exits
\* non-zero with empty standard error, Execute reports no error.
C22_SilentStep == SilentFailure => xErr' = NilErr

C22_NonZeroExitNoError == [][C22_SilentStep]_vars

\* C22 as the code has it: for a non-redirected external command whose child
\* exits non-zero with empty standard error, Execute reports the raw process
\* failure as its error, with empty output.
C22_RawStep ==
    SilentFailure =>
        /\ xPc' = "done"
        /\ xErr' = [nil |-> FALSE, text |-> RawExitFailure]
        /\ xOut' = <<>>

C22_NonZeroExitIsError == [][C22_RawStep]_vars

\* "ls" ran, wrote a line to its standard output and nothing to its standard
\* error, and exited non-zero: Execute returned "exit status 1" as error
C22_Witness ==
    /\ xPc = "done"
    /\ xInput = <<"l","s">>
    /\ xRuns # <<>>
    /\ xRuns[1].started /\ ~xRuns[1].ok
    /\ xRuns[1].out = <<"x", NL>>
    /\ xRuns[1].errOut = <<>>
    /\ xErr = [nil |-> FALSE, text |-> RawExitFailure]
    /\ xOut = <<>>

----------------------------------------------------------------------------
(* Claims about redirected runs, checked under RunsSpec and ExecSpec *)

TruncateOps == { <<">">>, <<"1",">">>, <<"2",">">> }
AppendOps == { <<">",">">>, <<"1",">",">">>, <<"2",">",">">> }
StdoutOps == { <<">">>, <<"1",">">>, <<">",">">>, <<"1",">",">">> }
StderrOps == { <<"2",">">>, <<"2",">",">">> }

\* the operator of the line: the second-to-last word
LineOp == LineArgs[Len(LineArgs) - 1]

\* the step opened the target of the line
OpenedTarget ==
    /\ FromParsed /\ ResolvedExternalLine /\ HasRedirection
    /\ Len(xOpens') = Len(xOpens) + 1
    /\ xOpens'[Len(xOpens')].ok

\* what the child of the step wrote to the stream the operator names
WrittenBy(c, op) ==
    IF ~c.started THEN <<>>
    ELSE IF op \in StdoutOps THEN c.out
    ELSE IF op \in StderrOps THEN c.errOut
    ELSE <<>>

\* C23 (step): a run whose operator is one of the six opens the target,
\* which is there afterwards; after >, 1>, 2> it holds what this run wrote,
\* after >>, 1>>, 2>> what it held before followed by what this run wrote.
C23_OpenStep ==
    (OpenedTarget /\ LineOp \in TruncateOps \cup AppendOps) =>
        /\ xFile'.there
        /\ Len(xRuns') = Len(xRuns) + 1
        /\ xFile'.text = (IF LineOp \in AppendOps THEN xFile.text ELSE <<>>)
                          \o WrittenBy(NewChild, LineOp)

\* two runs have opened the target and returned
TwoRuns ==
    /\ xPc = "done"
    /\ Len(xOpens) = 2 /\ xOpens[1].ok /\ xOpens[2].ok
    /\ Len(xRuns) = 2

\* C23 (sequences): after > twice the file holds the second run's output
\* only; after > and then >> it holds the first run's output followed by
\* the second's.
C23_Sequences ==
    TwoRuns =>
        /\ (xOpens[1].type = <<">">> /\ xOpens[2].type = <<">">>)
              => xFile.text = WrittenBy(xRuns[2], <<">">>)
        /\ (xOpens[1].type = <<">">> /\ xOpens[2].type = <<">",">">>)
              => xFile.text = WrittenBy(xRuns[1], <<">">>) \o WrittenBy(xRuns[2], <<">">>)

\* C23: the target is created if absent, truncated by >, 1>, 2> and
\* appended to by >>, 1>>, 2>>: > twice leaves the second output only, >
\* and then >> leaves both outputs in run order.
C23_TruncateOrAppend == []C23_Sequences /\ [][C23_OpenStep]_vars

\* "ls > f" wrote a line, then "ls >> f" wrote a line and an empty line: the
\* file, absent before, holds both
C23_Witness ==
    /\ TwoRuns
    /\ xOpens[1].type = <<">">>
    /\ xOpens[2].type = <<">",">">>
    /\ xRuns[1].started /\ xRuns[1].out = <<"x", NL>>
    /\ xRuns[2].started /\ xRuns[2].out = <<"x", NL, NL>>
    /\ xFile = [there |-> TRUE, text |-> <<"x", NL, "x", NL, NL>>]

\* the text every redirect error begins with
RedirectErrorPrefix == <<"r","e","d","i","r","e","c","t",SP,"e","r","r","o","r",":",SP>>

\* C24 (step): a resolved external command with a redirection target makes
\* one attempt to open the target; if that succeeds the child is run and
\* Execute returns the empty string and no error, whatever the child did; if
\* it fails Execute returns a redirect error, no child is run and the file is
\* as it was.
C24_RedirectStep ==
    (FromParsed /\ ResolvedExternalLine /\ HasRedirection) =>
        /\ xPc' = "done"
        /\ Len(xOpens') = Len(xOpens) + 1
        /\ xOut' = <<>>
        /\ IF xOpens'[Len(xOpens')].ok
           THEN /\ Len(xRuns') = Len(xRuns) + 1
                /\ xErr' = NilErr
           ELSE /\ xRuns' = xRuns
                /\ xFile' = xFile
                /\ xTerm' = xTerm
                /\ ~xErr'.nil
                /\ Len(xErr'.text) > Len(RedirectErrorPrefix)
                /\ SubSeq(xErr'.text, 1, Len(RedirectErrorPrefix)) = RedirectErrorPrefix

\* C24: with a redirection target that opens, Execute runs the child and
\* returns empty output and no error regardless of the child's outcome; with
\* a target that cannot be opened it returns a redirect error and the child
\* is never run.
C24_RedirectedRun == [][C24_RedirectStep]_vars

\* "ls > f" ran, the child wrote to both streams and failed: no output, no
\* error
C24_Witness ==
    /\ xPc = "done"
    /\ xInput = <<"l","s",SP,">",SP,"f">>
    /\ Len(xOpens) = 1 /\ xOpens[1].ok
    /\ Len(xRuns) = 1
    /\ xRuns[1].started /\ ~xRuns[1].ok
    /\ xRuns[1].out = <<"x", NL>> /\ xRuns[1].errOut = <<"E", NL>>
    /\ xOut = <<>>
    /\ xErr = NilErr

\* what the child of the step wrote to the stream the operator does not name
PassedBy(c, op) ==
    IF ~c.started THEN <<>>
    ELSE IF op \in StdoutOps THEN c.errOut
    ELSE IF op \in StderrOps THEN c.out
    ELSE <<>>

\* C25 as stated (step): whenever the target is opened the operator is one
\* of >, 1>, >>, 1>>, 2>, 2>>, the stream it names goes to the file and the
\* other stream to the terminal.
C25_WiringStep ==
    OpenedTarget =>
        /\ LineOp \in StdoutOps \cup StderrOps
        /\ Len(xRuns') = Len(xRuns) + 1
        /\ NewChild.started =>
              /\ xFile'.text = (IF xOpens'[Len(xOpens')].append THEN xFile.text ELSE <<>>)
                                \o (IF LineOp \in StdoutOps THEN NewChild.out
                                    ELSE NewChild.errOut)
              /\ xTerm' = xTerm \o (IF LineOp \in StdoutOps THEN NewChild.errOut
                                    ELSE NewChild.out)

C25_SixOperatorsWired == [][C25_WiringStep]_vars

----------------------------------------------------------------------------
(* Claims about parseRedirection and the command table, checked under CallSpec *)

\* parseRedirection has returned
RedirectionReturned == callPc = "done" /\ callFn = "parseRedirection"

\* the word holds the character '>'
HoldsGreater(w) == \E k \in 1 .. Len(w) : w[k] = ">"

\* C26: with fewer than two arguments, or a second-to-last argument without
\* '>', parseRedirection returns no operator, no target and the arguments as
\* they are (a lone trailing '>' is no redirection); otherwise it returns
\* the second-to-last argument as operator, the last as target and the
\* arguments before them in their order.
C26_ParseRedirection ==
    RedirectionReturned =>
        LET a == callIn.args
            r == callRet.ret
            n == Len(a)
        IN  IF n < 2 \/ ~HoldsGreater(a[n - 1])
            THEN r.type = <<>> /\ r.file = <<>> /\ r.args = a
            ELSE /\ r.type = a[n - 1]
                 /\ r.file = a[n]
                 /\ Len(r.args) = n - 2
                 /\ \A k \in 1 .. n - 2 : r.args[k] = a[k]

\* the arguments "-l", ">", "f" gave the operator ">", the target "f" and
\* the argument "-l"
C26_Witness ==
    /\ RedirectionReturned
    /\ callIn.args = << <<"-","l">>, <<">">>, <<"f">> >>
    /\ callRet.ret = [type |-> <<">">>, file |-> <<"f">>, args |-> << <<"-","l">> >>]

\* the six registered names as words
SixWords ==
    { <<"e","c","h","o">>, <<"t","y","p","e">>, <<"p","w","d">>, <<"c","d">>,
      <<"e","x","i","t">>, <<"h","i","s","t","o","r","y">> }

\* BuiltinCommands.Execute has returned, or ended the process
ExecuteCalled == callPc = "done" /\ callFn = "Execute"

\* C28: IsBuiltin is true exactly for echo, type, pwd, cd, exit, history,
\* in every state; BuiltinCommands.Execute on any other name returns the
\* error "<name>: command not found", writes nothing to its stdout and has
\* none of the effects of a handler.
C28_CommandTable ==
    /\ \A w \in CallNames \cup ArgWords : IsBuiltin(NameOf(w)) <=> w \in SixWords
    /\ (ExecuteCalled /\ callIn.name \notin SixWords) =>
          /\ callRet.ret.err =
                [nil |-> FALSE,
                 text |-> callIn.name \o <<":",SP,"c","o","m","m","a","n","d",SP,
                                            "n","o","t",SP,"f","o","u","n","d">>]
          /\ callRet.ret.buf = <<>>
          /\ callRet.ret.term = <<>>
          /\ ~callRet.ret.exits
          /\ callRet.ret.cwd = <<"/","h">>
          /\ ~callRet.ret.limit.set

\* Execute of "Echo" with the argument "f" has returned "Echo: command not
\* found" and written nothing
C28_Witness ==
    /\ ExecuteCalled
    /\ callIn = [name |-> <<"E","c","h","o">>, args |-> << <<"f">> >>]
    /\ ~callRet.ret.err.nil
    /\ callRet.ret.buf = <<>>

----------------------------------------------------------------------------
(* Claims about FindExecutable and the built-ins, checked under ExecSpec *)

\* the directory holds a regular file of that name with the owner's
\* execute bit
OwnerCandidate(d, name) ==
    /\ name \in DOMAIN disk[d]
    /\ disk[d][name].kind = "regular"
    /\ "u" \in disk[d][name].perm

\* the first directory of the search path with such a file, 0 if none
FirstOwnerCandidate(name) ==
    IF \E k \in 1 .. Len(SearchPath) : OwnerCandidate(SearchPath[k], name)
    THEN CHOOSE k \in 1 .. Len(SearchPath) :
            /\ OwnerCandidate(SearchPath[k], name)
            /\ \A j \in 1 .. k - 1 : ~OwnerCandidate(SearchPath[j], name)
    ELSE 0

\* C27 as stated: FindExecutable returns the path in the first directory,
\* in search-path order, that holds a regular file of that name with the
\* owner's execute bit, and not-found exactly when no directory does; the
\* child Execute launches is that file.
C27_FirstOwnerExecutable ==
    /\ \A name \in KnownNames \cup {"?"} :
          FindExecutable(name) =
              IF FirstOwnerCandidate(name) = 0 THEN <<>>
              ELSE <<SearchPath[FirstOwnerCandidate(name)], name>>
    /\ \A i \in 1 .. Len(xRuns) :
          /\ FirstOwnerCandidate(xRuns[i].path[2]) # 0
          /\ xRuns[i].path[1] = SearchPath[FirstOwnerCandidate(xRuns[i].path[2])]

\* a line without '|' and '>' whose command is a built-in has been handed
\* to its handler
BuiltinRan == xVia = "builtin" /\ xPc \in {"done", "exit"}

\* C29 as stated: what a built-in outputs goes to the stdout handle it was
\* given, and nothing to the terminal.
C29_NothingOnTerminal == BuiltinRan => xTerm = <<>>

\* the report of exit about the word
NumericRequired(word) ==
    <<"e","x","i","t",":",SP>> \o word
    \o <<":",SP,"n","u","m","e","r","i","c",SP,"a","r","g","u","m","e","n","t",SP,
         "r","e","q","u","i","r","e","d">>

\* t occurs in s
Occurs(t, s) ==
    \E k \in 0 .. Len(s) - Len(t) : SubSeq(s, k + 1, k + Len(t)) = t

\* the process has ended in exit with a first argument that is no number
ExitedOnWord ==
    /\ xPc = "exit"
    /\ Len(xParts) > 1
    /\ \E k \in 1 .. Len(xParts[2]) :
          xParts[2][k] \notin {"0","1","2","3","4","5","6","7","8","9"}

\* C30 as stated: when exit with a non-numeric argument ends the process,
\* the report "exit: <arg>: numeric argument required" has reached the
\* terminal or is Execute's output or error.
C30_ReportBeforeExit ==
    ExitedOnWord =>
        \/ Occurs(NumericRequired(xParts[2]), xTerm)
        \/ Occurs(NumericRequired(xParts[2]), xOut)
        \/ (~xErr.nil /\ Occurs(NumericRequired(xParts[2]), xErr.text))

----------------------------------------------------------------------------
(* Claims about the type, cd and pwd built-ins, checked under ExecSpec and
   RunsSpec *)

\* a line without '|' and without '>' whose command is the type built-in
TypeLine ==
    /\ \A k \in 1 .. Len(xInput) : xInput[k] # "|" /\ xInput[k] # ">"
    /\ LineParts # <<>>
    /\ NameOf(LineParts[1]) = "type"

\* the text of a directory of the search path
DirText(d) == IF d = "/a" THEN <<"/","a">> ELSE <<"/","b">>

\* what type is to say of the word: built-ins first, then the search path
TypeAnswer(word) ==
    IF NameOf(word) \in SixBuiltins
    THEN word \o <<SP,"i","s",SP,"a",SP,"s","h","e","l","l",SP,"b","u","i","l","t","i","n">>
    ELSE IF FindExecutable(NameOf(word)) # NotFound
    THEN word \o <<SP,"i","s",SP>> \o DirText(FindExecutable(NameOf(word))[1])
              \o <<"/">> \o word
    ELSE word \o <<":",SP,"n","o","t",SP,"f","o","u","n","d">>

\* C31 (step): the step that runs type returns no error; without an
\* argument it writes nothing; with one it writes the answer for its first
\* argument and a newline: "<name> is a shell builtin" for a registered
\* name whatever the search path holds, else "<name> is <path>" with the
\* path FindExecutable returns, else "<name>: not found".
C31_TypeStep ==
    (FromParsed /\ TypeLine) =>
        /\ xPc' = "done"
        /\ xVia' = "builtin"
        /\ xErr' = NilErr
        /\ xRuns' = <<>> /\ xTerm' = <<>>
        /\ LineArgs = <<>> => xBuf'.text = <<>> /\ xOut' = <<>>
        /\ LineArgs # <<>> =>
              /\ xBuf'.text = TypeAnswer(LineArgs[1]) \o <<NL>>
              /\ xOut' = TypeAnswer(LineArgs[1])

\* C31: type classifies its first argument with built-ins taking precedence
\* over the search path, and outputs nothing without an argument.
C31_TypeClassifies == [][C31_TypeStep]_vars

\* "type echo" was run where /a/echo is an executable file: the answer is
\* still "echo is a shell builtin"
C31_Witness ==
    /\ xPc = "done"
    /\ xInput = <<"t","y","p","e",SP,"e","c","h","o">>
    /\ disk["/a"]["echo"] = Executable
    /\ xOut = <<"e","c","h","o",SP,"i","s",SP,"a",SP,"s","h","e","l","l",SP,"b","u","i","l","t","i","n">>
    /\ xErr = NilErr

\* a line whose command is cd, and one whose command is pwd
CdLine == LineParts # <<>> /\ NameOf(LineParts[1]) = "cd"
PwdLine == LineParts # <<>> /\ NameOf(LineParts[1]) = "pwd"

\* bare cd and cd ~ name the home directory
NamesHome == LineArgs = <<>> \/ LineArgs[1] = <<"~">>

\* the directory the first word after cd resolves to
CdTarget == IF NamesHome THEN <<"/","h">> ELSE LineArgs[1]

\* "cd: <path>: No such file or directory"
NoSuchDirectory(path) ==
    <<"c","d",":",SP>> \o path
    \o <<":",SP,"N","o",SP,"s","u","c","h",SP,"f","i","l","e",SP,"o","r",SP,
         "d","i","r","e","c","t","o","r","y">>

\* C32 (cd): the step that runs cd returns to the loop; if it succeeds the
\* working directory is the one its argument resolves to (home for "cd ~"
\* and bare "cd"); for a path that is not there it returns the error
\* "cd: <path>: No such file or directory" and the empty output; whenever it
\* fails the working directory stays; a directory that is there is entered
\* unless the home directory could not be looked up, which is not reported
\* as a missing directory.
C32_CdStep ==
    (FromParsed /\ CdLine) =>
        /\ xPc' = "done"
        /\ xOut' = <<>>
        /\ xErr'.nil => xCwd' = CdTarget
        /\ ~xErr'.nil => xCwd' = xCwd
        /\ CdTarget \notin ExistingDirs =>
              xErr' = [nil |-> FALSE, text |-> NoSuchDirectory(CdTarget)]
        /\ (CdTarget \in ExistingDirs /\ ~xErr'.nil) =>
              /\ NamesHome
              /\ ~Occurs(<<"N","o",SP,"s","u","c","h">>, xErr'.text)

\* C32 (pwd): a pwd that succeeds returns the working directory and leaves
\* it.
C32_PwdStep ==
    (FromParsed /\ PwdLine) =>
        /\ xCwd' = xCwd
        /\ xErr'.nil => xOut' = xCwd

\* C32 (loop): between the return of one command and the handler of the
\* next, the working directory stays; the loop prints an error as a line of
\* text and goes on to the next call.
C32_LoopStep ==
    /\ (xPc = "call" /\ vars' # vars) => xCwd' = xCwd
    /\ (xPc = "done" /\ vars' # vars) =>
          /\ xCwd' = xCwd
          /\ xPc' = "call"
          /\ ~xErr.nil => xTerm' = xTerm \o xErr.text \o <<NL>>

\* C32: after a successful cd a following pwd returns the directory cd's
\* argument resolves to; a cd to a path that is not there returns
\* "cd: <path>: No such file or directory" as text, leaves the working
\* directory and does not end the shell.
C32_CdThenPwd == [][C32_CdStep /\ C32_PwdStep /\ C32_LoopStep]_vars

\* a session in which pwd printed /x, "cd 7" failed and its message was
\* printed, a cd went home, and pwd has now returned the home directory
C32_Witness ==
    /\ xPc = "done"
    /\ xInput = <<"p","w","d">>
    /\ xOut = <<"/","h">>
    /\ xErr = NilErr
    /\ xTerm = <<"/","x",NL>> \o NoSuchDirectory(<<"7">>) \o <<NL>>

----------------------------------------------------------------------------
(* Claims about the orchestrator's order and the terminal, checked under
   PipeSpec *)

\* a child that was started and has not exited
ChildAlive(i) == IsChild(i) /\ proc[i].state = "run"

\* a built-in stage task that has not returned
TaskAlive(i) == IsTask(i) /\ proc[i].state = "run"

\* C33 (children): when executePipe has returned, every started external
\* child has exited.
C33_ChildrenExited == Returned => \A i \in StageIx : ~ChildAlive(i)

\* C33 (children, without error): the same of the return that follows the
\* wait loop.
C33_ChildrenExitedOnReturnNil ==
    (Returned /\ err = "none") => \A i \in StageIx : ~ChildAlive(i)

\* C33 (tasks): executePipe has returned without error while the built-in
\* task of the last stage has not yet written its output to the terminal.
C33_TaskOutlivesReturn ==
    /\ Returned /\ err = "none"
    /\ TaskAlive(N - 1)
    /\ proc[N - 1].wq # <<>>
    /\ termOut = <<>>

\* C33: executePipe returns only after every started external child has
\* exited, and does not join the built-in stage tasks.
C33_ReturnsAfterChildren == C33_ChildrenExited

\* the orchestrator has called Close on the pipe end
ClosedByOrchestrator(h) ==
    \E k \in 1 .. Len(closedBy[h]) : closedBy[h][k] = "orch"

\* every pipe write end created was closed by the orchestrator
AllWriteEndsClosed == \A p \in 0 .. (N - 2) : ClosedByOrchestrator(WriteEnd(p))

\* C34 (write ends): a write end is closed by the orchestrator only when
\* every external stage has been started.
C34_WriteEndsAfterStart ==
    \A p \in Pipes :
        ClosedByOrchestrator(WriteEnd(p)) =>
            \A i \in StageIx : IsExternalStage(i) => (InCmds(i) /\ Launched(i))

\* C34 (wait): the orchestrator is in the wait loop, or past it, only when
\* every write end is closed.
C34_WaitAfterClose ==
    (pc \in {"wait", "closeR"} \/ (Returned /\ err = "none")) => AllWriteEndsClosed

\* C34 (read ends): a read end is closed only when every started child has
\* exited, and none is closed before the wait loop is through.
C34_ReadEndsAfterExit ==
    \A p \in Pipes :
        ClosedByOrchestrator(ReadEnd(p)) =>
            /\ pc \in {"closeR", "done"}
            /\ \A i \in StageIx : IsChild(i) => proc[i].state = "exit"

\* C34: the orchestrator closes its write ends only after every external
\* stage has been started, begins to wait only after all write ends are
\* closed, and closes the read ends only after every started child has
\* exited.
C34_OrchestratorOrder ==
    /\ C34_WriteEndsAfterStart
    /\ C34_WaitAfterClose
    /\ (pc = "closeR" => \A i \in StageIx : IsChild(i) => proc[i].state = "exit")
    /\ C34_ReadEndsAfterExit

\* a pipeline of three programs has run through all four loops
C34_Witness ==
    /\ Returned /\ err = "none"
    /\ commands = <<"emit", "tail", "count">>
    /\ cmds = <<0, 1, 2>>
    /\ \A p \in 0 .. 1 : ClosedByOrchestrator(WriteEnd(p)) /\ ClosedByOrchestrator(ReadEnd(p))

\* a stage that is neither the first nor the last
MiddleStage(i) == i \in StageIx /\ 0 < i /\ i < N - 1

\* the stage has read from or written to the terminal through one of the
\* three streams it was given
TouchedByStream(i) ==
    \/ proc[i].stdin = OsStdin /\ (proc[i].rd # <<>> \/ proc[i].eof)
    \/ proc[i].stdout = OsStdout /\ proc[i].sent # <<>>
    \/ proc[i].stderr = OsStderr /\ proc[i].diag # <<>>

\* the stage has written to the shell's own standard output without using
\* the stdout it was given
TouchedDirectly(i) == proc[i].direct # <<>>

\* C35 (streams): no middle stage has read from or written to the terminal
\* on its stdin, stdout or stderr.
C35_MiddleStreamsOffTerminal == \A i \in StageIx : MiddleStage(i) => ~TouchedByStream(i)

\* C35 (built-ins): no middle built-in has written to the terminal past its
\* stdout.
C35_MiddleBuiltinsOffTerminal == \A i \in StageIx : MiddleStage(i) => ~TouchedDirectly(i)

\* C35: during a pipeline only the first and the last stage ever touch the
\* terminal: no middle stage, built-in or external, reads from or writes to
\* it on any of its streams.
C35_OnlyEndsTouchTerminal ==
    C35_MiddleStreamsOffTerminal /\ C35_MiddleBuiltinsOffTerminal

----------------------------------------------------------------------------
(* Claims about the cutting of a line into commands, checked under CallSpec *)

\* Executor.Execute was called on a line and has cut it
LineCut == callFn = "Executor.Execute" /\ callPc = "done"

\* the line after strings.TrimSpace
CutLine == TrimSpace(callIn.args[1])

\* the positions of '|' in the line, quoted or not
Bars == {k \in 1 .. Len(CutLine) : CutLine[k] = "|"}

\* the position of the n-th '|'; 0 before the first, past the end after the last
NthBar(n) ==
    IF n = 0 THEN 0
    ELSE IF n > Cardinality(Bars) THEN Len(CutLine) + 1
    ELSE CHOOSE k \in Bars : Cardinality({j \in Bars : j <= k}) = n

\* the text between the (n-1)-th and the n-th '|'
SegmentText(n) == SubSeq(CutLine, NthBar(n - 1) + 1, NthBar(n) - 1)

\* C36 (cut): a line with a '|' anywhere is run as a pipeline with one
\* command per stretch between two '|', each the words ParseArgs makes of
\* that stretch alone, and no word of any command holds a '|'; a line
\* without '|' is one command.
C36_Cut ==
    LineCut =>
        IF Bars = {}
        THEN callRet.kind = "single"
        ELSE /\ callRet.kind = "pipeline"
             /\ Len(callRet.ret) = Cardinality(Bars) + 1
             /\ \A n \in 1 .. Len(callRet.ret) :
                   /\ callRet.ret[n] = ParseArgs(TrimSpace(SegmentText(n)))
                   /\ \A w \in 1 .. Len(callRet.ret[n]) :
                         \A k \in 1 .. Len(callRet.ret[n][w]) : callRet.ret[n][w][k] # "|"

\* C36 (quotes): a '|' inside single or double quotes or after a backslash
\* cuts the line like any other; the quote opened before it is unterminated
\* in its command and the one after it opens a new one in the next.
C36_Quoted ==
    LineCut =>
        /\ callIn.args[1] \in { <<SQ,"a","|","a",SQ>>, <<DQ,"a","|","a",DQ>>, <<"a",BS,"|","a">> }
              => callRet = [kind |-> "pipeline", ret |-> << << <<"a">> >>, << <<"a">> >> >>]
        /\ callIn.args[1] = <<"a",SP,SQ,"|",SQ>>
              => callRet = [kind |-> "pipeline", ret |-> << << <<"a">> >>, <<>> >>]

\* C36: every line with a '|' is executed as a pipeline and is split at
\* every '|' before tokenization, quoted or escaped ones included; a '|' is
\* never part of an argument and each segment is tokenized on its own.
C36_SplitBeforeTokenizing == C36_Cut /\ C36_Quoted

\* the line 'a|a' was cut inside its quotes into the commands a and a
C36_Witness ==
    /\ LineCut
    /\ callIn.args[1] = <<SQ,"a","|","a",SQ>>
    /\ callRet = [kind |-> "pipeline", ret |-> << << <<"a">> >>, << <<"a">> >> >>]

----------------------------------------------------------------------------
(* Claims about lines that hold '>', checked under ExecSpec *)

\* a line without '|' that holds a '>' somewhere and has a command
GreaterLine ==
    /\ \A k \in 1 .. Len(xInput) : xInput[k] # "|"
    /\ \E k \in 1 .. Len(xInput) : xInput[k] = ">"
    /\ LineParts # <<>>

\* "<name>: command not found"
NotFoundText(word) ==
    word \o <<":",SP,"c","o","m","m","a","n","d",SP,"n","o","t",SP,"f","o","u","n","d">>

\* C37 (step): on a line without '|' that holds a '>', the step after
\* parsing runs no built-in handler (no buffer is made, the working
\* directory and the history limit stay, the shell does not exit, nothing
\* is printed by a handler); the command is looked up on the search path:
\* without a candidate Execute returns "<name>: command not found" and
\* launches nothing, with one every child launched runs the path
\* FindExecutable returns.
C37_GreaterStep ==
    (FromParsed /\ GreaterLine) =>
        /\ xVia' = "external"
        /\ xPc' = "done"
        /\ xBuf' = xBuf /\ ~xBuf'.made
        /\ xCwd' = xCwd /\ xLimit' = xLimit
        /\ IF FindExecutable(NameOf(LineParts[1])) = NotFound
           THEN /\ xErr' = [nil |-> FALSE, text |-> NotFoundText(LineParts[1])]
                /\ xOut' = <<>>
                /\ xRuns' = xRuns /\ xOpens' = xOpens /\ xTerm' = xTerm
           ELSE /\ xErr'.nil \/ xErr'.text # NotFoundText(LineParts[1])
                /\ \/ xRuns' = xRuns /\ Len(xOpens') = Len(xOpens) + 1
                   \/ /\ Len(xRuns') = Len(xRuns) + 1
                      /\ NewChild.path = FindExecutable(NameOf(LineParts[1]))

\* C37: a line without '|' that holds a '>' anywhere never reaches a
\* built-in handler; its command is resolved by FindExecutable and Execute
\* fails with "<name>: command not found" when there is no such executable.
C37_GreaterNeverBuiltin == [][C37_GreaterStep]_vars

\* echo "a>b" was run where no program named echo is installed
C37_Witness ==
    /\ xPc = "done"
    /\ xInput = <<"e","c","h","o",SP,DQ,"a",">","b",DQ>>
    /\ xVia = "external"
    /\ xErr = [nil |-> FALSE, text |-> NotFoundText(<<"e","c","h","o">>)]
    /\ ~xBuf.made

----------------------------------------------------------------------------
(* Claims about the mode flags of ParseArgs, checked under ParseSpec *)

\* how many of the three flags are set
FlagsSet ==
    (IF st.inSingle THEN 1 ELSE 0) + (IF st.inDouble THEN 1 ELSE 0)
    + (IF st.escaped THEN 1 ELSE 0)

\* one iteration of the scan
ScanStep == ppc = "scan" /\ pos <= Len(input) /\ pos' = pos + 1

\* C38 (as stated, flags): at every point of the scan at most one of
\* inSingle, inDouble and escaped is set.
C38_AtMostOneFlag == FlagsSet <= 1

\* C38 (reset): an iteration that begins with the escape flag set clears it,
\* leaves the quote flags, and writes the character it is at.
C38_EscapeReset ==
    (ScanStep /\ st.escaped) =>
        /\ ~st'.escaped
        /\ st'.inSingle = st.inSingle /\ st'.inDouble = st.inDouble
        /\ st'.curr # <<>> /\ st'.curr[Len(st'.curr)] = input[pos]

\* C38 (set): the escape flag is set only by a backslash read outside single
\* quotes with the flag clear, and that iteration changes nothing else.
C38_EscapeSet ==
    (ScanStep /\ st'.escaped) =>
        /\ ~st.escaped /\ input[pos] = BS /\ ~st.inSingle
        /\ st' = [st EXCEPT !.escaped = TRUE]

\* C38 (as stated): the three flags are mutually exclusive and the escape
\* flag is cleared right after the one character it applies to.
C38_FlagsExclusive == []C38_AtMostOneFlag /\ [][C38_EscapeReset]_vars

\* C38 (amended, flags): inSingle is never set together with inDouble or
\* with escaped.
C38_SingleExcludes == ~(st.inSingle /\ st.inDouble) /\ ~(st.inSingle /\ st.escaped)

\* C38 (amended): the two quote flags are never set together and the escape
\* flag is never set inside single quotes; it is set together with inDouble
\* by a backslash inside double quotes; it is cleared right after the one
\* character it applies to.
C38_QuotesExclusive ==
    []C38_SingleExcludes /\ [][C38_EscapeReset /\ C38_EscapeSet]_vars

\* a backslash inside double quotes was read: inDouble and escaped are both
\* set
C38_Witness ==
    /\ ppc = "scan"
    /\ input = <<DQ, BS, "a", DQ>>
    /\ pos = 3
    /\ st.inDouble /\ st.escaped /\ ~st.inSingle

----------------------------------------------------------------------------
(* Claims about the insertion and the listing of BellWrapper.Do, checked
   under CompSpec *)

\* the call returned something to insert
Inserts(r) == r.cands # <<>>

\* C39 (as stated, step): a call with two or more distinct matches returns
\* an insertion only when the common prefix is non-empty and strictly longer
\* than the typed partial word.
C39_LongerStep ==
    (DoStep /\ Many /\ Inserts(doRet')) =>
        /\ LongestShared(DistinctRaw) # <<>>
        /\ Len(LongestShared(DistinctRaw)) > Len(Partial)

\* C39 (as stated): with two or more matches the LCP is returned as an
\* insertion only when it is non-empty and strictly longer than the partial
\* word line[offset:pos].
C39_InsertsOnlyLongerLCP == [][C39_LongerStep]_vars

\* C39 (amended, step): a call with two or more distinct matches returns an
\* insertion exactly when the common prefix is non-empty and it is not the
\* case that the turn-state is armed and the partial word equals the common
\* prefix; the insertion is the common prefix, whatever its length.
C39_InsertStep ==
    (DoStep /\ Many) =>
        /\ Inserts(doRet') <=>
              /\ LongestShared(DistinctRaw) # <<>>
              /\ ~(tabPress /\ Partial = LongestShared(DistinctRaw))
        /\ Inserts(doRet') => doRet'.cands = << LongestShared(DistinctRaw) >>

\* C39 (amended): with two or more matches the LCP is returned as an
\* insertion whenever it is non-empty, unless the turn-state is armed and
\* the partial word equals the LCP; the lengths are not compared.
C39_InsertsLCPUnlessSecondPress == [][C39_InsertStep]_vars

\* a first press on "c e" with the partial word "e" and the candidates echo
\* and exit: the LCP "e", no longer than the partial word, is returned
C39_Witness ==
    /\ DoReturned
    /\ rawMatches = << <<"e","c","h","o">>, <<"e","x","i","t">> >>
    /\ curLine = <<"c", SP, "e">> /\ rawOffset = 2
    /\ presses = << [armed |-> FALSE, did |-> "insert"] >>
    /\ doRet.cands = << <<"e">> >>

\* strs glued together with sep between neighbours
RECURSIVE Glued(_, _)
Glued(strs, sep) ==
    IF strs = <<>> THEN <<>>
    ELSE IF Len(strs) = 1 THEN strs[1]
    ELSE Glued(SubSeq(strs, 1, Len(strs) - 1), sep) \o sep \o strs[Len(strs)]

\* the text before the partial word
BeforePartial == SubSeq(curLine, 1, rawOffset)

\* the distinct candidates in increasing order, each behind the text before
\* the partial word
PrefixedCandidates ==
    [k \in 1 .. Cardinality(DistinctRaw) |-> BeforePartial \o Increasing(DistinctRaw)[k]]

\* the same with the white space around each candidate removed
PrefixedTrimmed ==
    [k \in 1 .. Cardinality(DistinctRaw) |->
        BeforePartial \o TrimSpace(Increasing(DistinctRaw)[k])]

\* C40 (as stated): when Do lists, the text written is the sorted candidate
\* list, every candidate behind the text before the partial word, joined by
\* newlines.
C40_ListingNewlineJoined ==
    (DoReturned /\ doOut.refresh) =>
        doOut.text = Glued(PrefixedCandidates, <<NL>>)

\* C40 (amended): when Do lists, the text written is a newline, the sorted
\* candidate list, every candidate stripped of surrounding white space and
\* put behind the text before the partial word, joined by two spaces, and a
\* newline.
C40_ListingTwoSpaceJoined ==
    (DoReturned /\ doOut.refresh) =>
        doOut.text = <<NL>> \o Glued(PrefixedTrimmed, <<SP, SP>>) \o <<NL>>

\* the second press on "c e" with the candidates exit and echo has printed
\* "c echo  c exit" between two newlines
C40_Witness ==
    /\ DoReturned /\ doOut.refresh
    /\ rawMatches = << <<"e","x","i","t">>, <<"e","c","h","o">> >>
    /\ curLine = <<"c", SP, "e">> /\ rawOffset = 2
    /\ doOut.text = <<NL, "c", SP, "e","c","h","o", SP, SP, "c", SP, "e","x","i","t", NL>>

====
